---- MODULE Spec2Model ----
(***************************************************************************)
(* A model of fastgltf (src/src/fastgltf.cpp): the Parser facade           *)
(* (loadGLTF, loadBinaryGLTF), the document handle glTF with its sticky    *)
(* errorCode and its parsedAsset, the nine parse<Entity> routines and      *)
(* getParsedAsset.                                                         *)
(*                                                                         *)
(* JSON is modelled by what the code can observe of it through simdjson:   *)
(* a scalar is a record [t, n, s] (t its JSON type, n its number, s its    *)
(* characters, a sequence of one-character strings), an object is a record *)
(* of the keys the code reads and an array a sequence.  A key the code     *)
(* never reads cannot change what the code does and is left out, except    *)
(* where a claim is about such keys.                                       *)
(***************************************************************************)
EXTENDS Integers, Sequences, FiniteSets, TLC

VARIABLES
    pc,            \* "start": Parser constructed; "loaded": a glTF handle exists;
                   \* "failed": load returned nullptr; "crashed": null dereference
    input,         \* what the caller passes to the load: [jsonData, directory,
                   \* isDirectory, options]
    file,          \* the GLB file the caller passes to loadBinaryGLTF
    otherLoad,     \* the arguments and the result of the last load made for
                   \* another document while this one is in use
    bytesRead,     \* number of bytes loadBinaryGLTF has read from the file
    activeImplementation,  \* simdjson::get_active_implementation()
    extensions,    \* Parser::extensions, copied to glTF::extensions
    parserError,   \* Parser::errorCode
    options,       \* glTF::options
    directory,     \* glTF::directory
    glb,           \* *glTF::glb (isNull: glb == nullptr)
    data,          \* glTF::data->root: the DOM root of the handle
    errorCode,     \* glTF::errorCode
    parsedAsset,   \* *glTF::parsedAsset
    assetMoved,    \* glTF::parsedAsset has been moved from (is null)
    callerAsset,   \* what the last getParsedAsset handed to the caller
    lastOp,        \* the operation that ran last
    ret,           \* the Error the last parse<Entity> returned
    calls          \* number of operations invoked on the handle

vars == <<pc, input, file, otherLoad, bytesRead, activeImplementation,
          extensions, parserError, options, directory, glb, data, errorCode,
          parsedAsset, assetMoved, callerAsset, lastOp, ret, calls>>

\* Bound on the number of operations invoked on one handle, the loads made
\* for other documents in between included.
MaxCalls == 4

\* std::numeric_limits<size_t>::max(), and an unset optional index.  TLC's
\* integers cannot hold 2^64-1; -1 is outside the indices the inputs use.
SizeMax == -1

-----------------------------------------------------------------------------
(* JSON values as simdjson shows them *)

Absent      == [t |-> "absent", n |-> 0, s |-> <<>>]
Num(n)      == [t |-> "uint",   n |-> n, s |-> <<>>]
Dbl         == [t |-> "double", n |-> 0, s |-> <<>>]
Str(s)      == [t |-> "string", n |-> 0, s |-> s]
Bool(b)     == [t |-> "bool",   n |-> IF b THEN 1 ELSE 0, s |-> <<>>]

\* element.get_uint64(): SUCCESS exactly on a non-negative integer
IsUint(v)   == v.t = "uint"
\* element.get_double(): SUCCESS on any number
IsDouble(v) == v.t \in {"uint", "double"}
\* element.get_string()
IsString(v) == v.t = "string"
\* element.get_bool()
IsBool(v)   == v.t = "bool"
\* element.error() == SUCCESS: the key exists, whatever its type
IsPresent(v) == v.t # "absent"
\* element.get_object() / element.get_array() on a nested value [t, v]
IsObject(v) == v.t = "object"
IsArray(v)  == v.t = "array"

-----------------------------------------------------------------------------
(* Error, Options, Extensions *)

Errors == {"None", "InvalidPath", "MissingExtensions", "UnsupportedExtensions",
           "InvalidJson", "InvalidGltf", "InvalidOrMissingAssetField",
           "InvalidGLB", "MissingField"}

AllOptions == {"AllowDouble", "DontRequireValidAssetMember", "DontUseSIMD",
               "LoadGLBBuffers"}

hasBit(flags, bit) == bit \in flags

\* the names of the registry, as characters
nameBasisu    == <<"K","H","R","_","t","e","x","t","u","r","e","_","b","a","s","i","s","u">>
nameTransform == <<"K","H","R","_","t","e","x","t","u","r","e","_","t","r","a","n","s","f","o","r","m">>
nameDds       == <<"M","S","F","T","_","t","e","x","t","u","r","e","_","d","d","s">>

\* the registry, in array order
extensionStrings ==
    << [name |-> nameBasisu,    flag |-> "KHR_texture_basisu"],
       [name |-> nameTransform, flag |-> "KHR_texture_transform"],
       [name |-> nameDds,       flag |-> "MSFT_texture_dds"] >>

AllExtensions == {extensionStrings[i].flag : i \in 1..Len(extensionStrings)}

\* a getJsonArray that takes a value of another type for a missing field
getJsonArrayLenient(field) ==
    IF field.t = "array" THEN "None" ELSE "MissingField"

\* getJsonArray on a nested value [t, v]
getJsonArray(field) ==
    IF field.t = "absent" THEN "MissingField"
    ELSE IF field.t = "array" THEN "None"
    ELSE "InvalidGltf"

-----------------------------------------------------------------------------
(* glTF::checkAssetField, glTF::checkExtensions *)

\* a checkAssetField that leaves out the test of "version"
checkAssetFieldNoVersion(root) == IsObject(root.asset)

\* TRUE when the root has an "asset" object with a string "version"
checkAssetField(root) ==
    IF ~IsObject(root.asset) THEN FALSE
    ELSE IF ~IsString(root.asset.v.version) THEN FALSE
    ELSE TRUE

\* the loop over extensionStrings for one required name: from registry index i
\* with the flags known and listed as they stand, up to the break or the end
RECURSIVE scanRegistry(_, _, _, _, _)
scanRegistry(string, exts, i, known, listed) ==
    IF i > Len(extensionStrings) THEN [known |-> known, listed |-> listed]
    ELSE LET k2 == IF ~known THEN extensionStrings[i].name = string ELSE known
             l2 == IF ~listed THEN hasBit(exts, extensionStrings[i].flag) ELSE listed
         IN  IF k2 /\ l2 THEN [known |-> k2, listed |-> l2]
             ELSE scanRegistry(string, exts, i + 1, k2, l2)

\* the loop over extensionsRequired from entry i: the error it ends with
RECURSIVE checkRequired(_, _, _)
checkRequired(required, exts, i) ==
    IF i > Len(required) THEN "None"
    ELSE IF ~IsString(required[i]) THEN "InvalidGltf"
    ELSE LET r == scanRegistry(required[i].s, exts, 1, FALSE, FALSE)
         IN  IF ~r.known THEN "UnsupportedExtensions"
             ELSE IF ~r.listed THEN "MissingExtensions"
             ELSE checkRequired(required, exts, i + 1)

\* the errorCode checkExtensions leaves ("None": it returned true)
checkExtensions(root, exts) ==
    IF IsArray(root.extensionsRequired)
    THEN checkRequired(root.extensionsRequired.v, exts, 1)
    ELSE "None"

\* glTF::returnError: the errorCode it stores (and returns)
returnError(old, error) == error

\* a getParsedAsset that leaves out the errorCode test
getParsedAssetUnchecked(ec) == TRUE

\* glTF::getParsedAsset: TRUE when it hands the asset over, FALSE for nullptr
getParsedAsset(ec) == ec = "None"

-----------------------------------------------------------------------------
(* std::string_view operations, MIME types, base64, glTF::decodeUri *)

\* std::string::npos; npos + 1 = 0 as in size_t arithmetic
npos == -1

\* s.find(ch, from): the first 0-based position >= from holding ch, or npos
find(s, ch, from) ==
    LET hits == {i \in 0..(Len(s) - 1) : i >= from /\ s[i + 1] = ch}
    IN  IF hits = {} THEN npos ELSE CHOOSE i \in hits : \A j \in hits : i <= j

\* s.substr(pos, count), pos <= size; a negative count is a count that wrapped
\* round below zero, larger than any string
substr(s, pos, count) ==
    LET last == IF count < 0 \/ pos + count > Len(s) THEN Len(s) ELSE pos + count
    IN  SubSeq(s, pos + 1, last)

mimeTypeJpeg        == <<"i","m","a","g","e","/","j","p","e","g">>
mimeTypePng         == <<"i","m","a","g","e","/","p","n","g">>
mimeTypeKtx         == <<"i","m","a","g","e","/","k","t","x","2">>
mimeTypeDds         == <<"i","m","a","g","e","/","v","n","d","-","m","s",".","d","d","s">>
mimeTypeGltfBuffer  == <<"a","p","p","l","i","c","a","t","i","o","n","/","g","l","t","f","-","b","u","f","f","e","r">>
mimeTypeOctetStream == <<"a","p","p","l","i","c","a","t","i","o","n","/","o","c","t","e","t","-","s","t","r","e","a","m">>

getMimeTypeFromString(mime) ==
    IF mime = mimeTypeJpeg THEN "JPEG"
    ELSE IF mime = mimeTypePng THEN "PNG"
    ELSE IF mime = mimeTypeKtx THEN "KTX2"
    ELSE IF mime = mimeTypeDds THEN "DDS"
    ELSE IF mime = mimeTypeGltfBuffer THEN "GltfBuffer"
    ELSE IF mime = mimeTypeOctetStream THEN "OctetStream"
    ELSE "None"

\* the base64 alphabet, value v at position v + 1
base64Alphabet == <<"A","B","C","D","E","F","G","H","I","J","K","L","M","N","O","P","Q","R","S","T","U","V","W","X","Y","Z","a","b","c","d","e","f","g","h","i","j","k","l","m","n","o","p","q","r","s","t","u","v","w","x","y","z","0","1","2","3","4","5","6","7","8","9","+","/">>

base64Value(c) ==
    IF c = "=" THEN 0
    ELSE CHOOSE v \in 0..63 : base64Alphabet[v + 1] = c

\* number of trailing '=' of the text (at most two count)
base64Padding(text) ==
    IF Len(text) >= 2 /\ text[Len(text)] = "=" /\ text[Len(text) - 1] = "=" THEN 2
    ELSE IF Len(text) >= 1 /\ text[Len(text)] = "=" THEN 1
    ELSE 0

\* the three bytes of the q-th group of four characters
base64Group(text, q) ==
    LET n == base64Value(text[4 * q - 3]) * 262144 + base64Value(text[4 * q - 2]) * 4096
             + base64Value(text[4 * q - 1]) * 64 + base64Value(text[4 * q])
    IN  << n \div 65536, (n \div 256) % 256, n % 256 >>

\* base64::decode and base64::fallback_decode (base64_decode.hpp): the bytes of
\* a base64 text; a text that is no base64 gives no bytes
base64Decode(text) ==
    IF Len(text) % 4 # 0
       \/ \E i \in 1..Len(text) :
             /\ \A v \in 1..64 : base64Alphabet[v] # text[i]
             /\ ~(text[i] = "=" /\ i > Len(text) - 2)
    THEN << >>
    ELSE LET size == 3 * (Len(text) \div 4) - base64Padding(text)
         IN  [k \in 1..size |-> base64Group(text, ((k - 1) \div 3) + 1)[((k - 1) % 3) + 1]]

\* DataSource {}
EmptySource ==
    [bytes |-> << >>, path |-> << >>, mimeType |-> "None", fileByteOffset |-> 0,
     bufferViewIndex |-> SizeMax]

\* directory / uri for a relative uri: one more component
pathAppend(dir, uri) == Append(dir, uri)

\* glTF::decodeUri: [error, source, location]
decodeUri(uri, dir, opts) ==
    IF substr(uri, 0, 4) = <<"d","a","t","a">>
    THEN LET index       == find(uri, ";", 0)
             encodingEnd == find(uri, ",", index + 1)
         IN  IF index = npos \/ encodingEnd = npos
             THEN [error |-> "InvalidGltf", source |-> EmptySource, location |-> "None"]
             ELSE IF substr(uri, index + 1, encodingEnd - index - 1)
                        # <<"b","a","s","e","6","4">>
             THEN [error |-> "InvalidGltf", source |-> EmptySource, location |-> "None"]
             ELSE [error |-> "None",
                   source |-> [EmptySource EXCEPT
                       !.mimeType = getMimeTypeFromString(substr(uri, 5, index - 5)),
                       !.bytes = base64Decode(substr(uri, encodingEnd + 1, npos))],
                   location |-> "VectorWithMime"]
    ELSE [error |-> "None",
          source |-> [EmptySource EXCEPT !.path = pathAppend(dir, uri)],
          location |-> "FilePathWithByteRange"]

-----------------------------------------------------------------------------
(* The loop shared by the parse<Entity> routines *)

\* One pass of a loop body: err is the error it returns with ("None": it went
\* on), skip is TRUE when it went on without appending, item is what it appended.
Fail(e)    == [err |-> e, skip |-> TRUE, item |-> << >>]
Skip       == [err |-> "None", skip |-> TRUE, item |-> << >>]
Emit(item) == [err |-> "None", skip |-> FALSE, item |-> item]

\* the first pass that returns with an error (Len + 1: none does)
firstFailure(passes) ==
    LET bad == {i \in 1..Len(passes) : passes[i].err # "None"}
    IN  IF bad = {} THEN Len(passes) + 1
        ELSE CHOOSE i \in bad : \A j \in bad : i <= j

RECURSIVE emitted(_, _)
emitted(passes, n) ==
    IF n = 0 THEN << >>
    ELSE IF passes[n].skip THEN emitted(passes, n - 1)
    ELSE Append(emitted(passes, n - 1), passes[n].item)

\* for (auto v : array) { body }: the passes run in order up to the first that
\* returns; err is that pass's error, items what the passes before it appended
runLoop(passes) ==
    LET k == firstFailure(passes)
    IN  [err   |-> IF k > Len(passes) THEN "None" ELSE passes[k].err,
         items |-> emitted(passes, k - 1)]

\* the float a number is stored as, in halves: a "double" n is the non-integer
\* n + 1/2
toFloat(v) == IF v.t = "uint" THEN 2 * v.n ELSE 2 * v.n + 1

\* std::string { name } when "name" is a string, else the empty string
optName(v) == IF IsString(v) THEN v.s ELSE << >>
\* an optional index: set when the field is a uint64
optIndex(v) == IF IsUint(v) THEN v.n ELSE SizeMax
\* a number that defaults to d
uintOr(v, d) == IF IsUint(v) THEN v.n ELSE d

-----------------------------------------------------------------------------
(* glTF::parseAccessors *)

\* getComponentType (fastgltf_types.hpp)
getComponentType(n) ==
    IF n = 5120 THEN "Byte" ELSE IF n = 5121 THEN "UnsignedByte"
    ELSE IF n = 5122 THEN "Short" ELSE IF n = 5123 THEN "UnsignedShort"
    ELSE IF n = 5125 THEN "UnsignedInt" ELSE IF n = 5126 THEN "Float"
    ELSE IF n = 5130 THEN "Double" ELSE "Invalid"

typeScalar == <<"S","C","A","L","A","R">>
typeVec3   == <<"V","E","C","3">>

\* getAccessorType (fastgltf_types.hpp), for the type names the inputs use
getAccessorType(name) ==
    IF name = typeScalar THEN "Scalar"
    ELSE IF name = typeVec3 THEN "Vec3"
    ELSE "Invalid"

parseAccessor(value, opts) ==
    IF ~IsObject(value) THEN Fail("InvalidGltf")
    ELSE LET o == value.v IN
    IF ~IsUint(o.componentType) THEN Fail("InvalidGltf")
    ELSE IF getComponentType(o.componentType.n) = "Double" /\ ~hasBit(opts, "AllowDouble")
    THEN Fail("InvalidGltf")
    ELSE IF ~IsString(o.type) THEN Fail("InvalidGltf")
    ELSE IF ~IsUint(o.count) THEN Fail("InvalidGltf")
    ELSE Emit([componentType   |-> getComponentType(o.componentType.n),
               type            |-> getAccessorType(o.type.s),
               count           |-> o.count.n,
               bufferViewIndex |-> optIndex(o.bufferView),
               byteOffset      |-> uintOr(o.byteOffset, 0),
               normalized      |-> IF IsBool(o.normalized) THEN o.normalized.n = 1 ELSE FALSE,
               name            |-> optName(o.name)])

parseAccessorsLoop(accessors, opts) ==
    runLoop([i \in 1..Len(accessors) |-> parseAccessor(accessors[i], opts)])

-----------------------------------------------------------------------------
(* glTF::parseBuffers *)

\* glb == nullptr
NoGlb == [isNull |-> TRUE, buffer |-> << >>, file |-> << >>, fileOffset |-> 0,
          fileSize |-> 0]

\* parseBuffer without the test of bufferIndex
parseBufferAnyIndex(value, bufferIndex, g, dir, opts) ==
    IF ~IsObject(value) THEN Fail("InvalidGltf")
    ELSE LET o == value.v IN
    IF ~IsUint(o.byteLength) THEN Fail("InvalidGltf")
    ELSE LET
        d == decodeUri(o.uri.s, dir, opts)
        src ==
            IF IsString(o.uri)
            THEN [error |-> d.error, data |-> d.source, location |-> d.location]
            ELSE IF ~g.isNull
            THEN IF hasBit(opts, "LoadGLBBuffers")
                 THEN [error |-> "None",
                       data |-> [EmptySource EXCEPT !.bytes = g.buffer],
                       location |-> "VectorWithMime"]
                 ELSE [error |-> "None",
                       data |-> [EmptySource EXCEPT !.path = g.file,
                                                    !.mimeType = "GltfBuffer",
                                                    !.fileByteOffset = g.fileOffset],
                       location |-> "FilePathWithByteRange"]
            ELSE [error |-> "InvalidGltf", data |-> EmptySource, location |-> "None"]
    IN  IF src.error # "None" THEN Fail(src.error)
        ELSE IF src.location = "None" THEN Fail("InvalidGltf")
        ELSE Emit([byteLength |-> o.byteLength.n, data |-> src.data,
                   location |-> src.location, name |-> optName(o.name)])

\* the body for the buffer at bufferIndex (0-based)
parseBuffer(value, bufferIndex, g, dir, opts) ==
    IF ~IsObject(value) THEN Fail("InvalidGltf")
    ELSE LET o == value.v IN
    IF ~IsUint(o.byteLength) THEN Fail("InvalidGltf")
    ELSE LET
        d == decodeUri(o.uri.s, dir, opts)
        src ==
            IF IsString(o.uri)
            THEN [error |-> d.error, data |-> d.source, location |-> d.location]
            ELSE IF bufferIndex = 0 /\ ~g.isNull
            THEN IF hasBit(opts, "LoadGLBBuffers")
                 THEN [error |-> "None",
                       data |-> [EmptySource EXCEPT !.bytes = g.buffer],
                       location |-> "VectorWithMime"]
                 ELSE [error |-> "None",
                       data |-> [EmptySource EXCEPT !.path = g.file,
                                                    !.mimeType = "GltfBuffer",
                                                    !.fileByteOffset = g.fileOffset],
                       location |-> "FilePathWithByteRange"]
            ELSE [error |-> "InvalidGltf", data |-> EmptySource, location |-> "None"]
    IN  IF src.error # "None" THEN Fail(src.error)
        ELSE IF src.location = "None" THEN Fail("InvalidGltf")
        ELSE Emit([byteLength |-> o.byteLength.n, data |-> src.data,
                   location |-> src.location, name |-> optName(o.name)])

\* TRUE when the loop moves glb->buffer into buffer 0
movesGlbBuffer(buffers, g, opts) ==
    /\ Len(buffers) >= 1
    /\ IsObject(buffers[1])
    /\ IsUint(buffers[1].v.byteLength)
    /\ ~IsString(buffers[1].v.uri)
    /\ ~g.isNull
    /\ hasBit(opts, "LoadGLBBuffers")

parseBuffersLoop(buffers, g, dir, opts) ==
    runLoop([i \in 1..Len(buffers) |-> parseBuffer(buffers[i], i - 1, g, dir, opts)])

-----------------------------------------------------------------------------
(* glTF::parseBufferViews *)

parseBufferView(value) ==
    IF ~IsObject(value) THEN Fail("InvalidGltf")
    ELSE LET o == value.v IN
    IF ~IsUint(o.buffer) THEN Fail("InvalidGltf")
    ELSE IF ~IsUint(o.byteLength) THEN Fail("InvalidGltf")
    ELSE Emit([bufferIndex |-> o.buffer.n,
               byteLength  |-> o.byteLength.n,
               byteOffset  |-> uintOr(o.byteOffset, 0),
               byteStride  |-> optIndex(o.byteStride),
               target      |-> optIndex(o.target),
               name        |-> optName(o.name)])

parseBufferViewsLoop(bufferViews) ==
    runLoop([i \in 1..Len(bufferViews) |-> parseBufferView(bufferViews[i])])

-----------------------------------------------------------------------------
(* glTF::parseImages *)

DataLocations == {"None", "VectorWithMime", "FilePathWithByteRange",
                  "BufferViewWithMime"}

\* `Image image;` default-initializes the image: nothing sets image.location,
\* so it starts with whatever value the build leaves there
ImageInitialLocations == DataLocations

\* the body for one image whose location starts as loc0
parseImage(value, loc0, dir, opts) ==
    IF ~IsObject(value) THEN Fail("InvalidGltf")
    ELSE LET o == value.v
             d == decodeUri(o.uri.s, dir, opts)
    IN
    IF IsString(o.uri) /\ IsPresent(o.bufferView) THEN Fail("InvalidGltf")
    ELSE IF IsString(o.uri) /\ d.error # "None" THEN Fail(d.error)
    ELSE LET
        \* after the uri branch
        data1 == IF IsString(o.uri)
                 THEN IF IsString(o.mimeType)
                      THEN [d.source EXCEPT !.mimeType = getMimeTypeFromString(o.mimeType.s)]
                      ELSE d.source
                 ELSE EmptySource
        loc1  == IF IsString(o.uri) THEN d.location ELSE loc0
    IN
    IF IsUint(o.bufferView) /\ ~IsString(o.mimeType) THEN Fail("InvalidGltf")
    ELSE LET
        \* after the bufferView branch
        data2 == IF IsUint(o.bufferView)
                 THEN [data1 EXCEPT !.bufferViewIndex = o.bufferView.n,
                                    !.mimeType = getMimeTypeFromString(o.mimeType.s)]
                 ELSE data1
    IN
    IF loc1 = "None" THEN Fail("InvalidGltf")
    ELSE Emit([data |-> data2, location |-> loc1, name |-> optName(o.name)])

\* locs[i] is the location image i starts with
parseImagesLoop(images, locs, dir, opts) ==
    runLoop([i \in 1..Len(images) |-> parseImage(images[i], locs[i], dir, opts)])

-----------------------------------------------------------------------------
(* glTF::parseTextureObject, glTF::parseMaterials *)

\* TextureInfo {}
ZeroTextureInfo ==
    [textureIndex |-> 0, texCoordIndex |-> 0, scale |-> 0, rotation |-> 0,
     uvOffset |-> <<0, 0>>, uvScale |-> <<0, 0>>]

\* array.at(i).get_double() succeeds for i = 0 .. n-1
hasDoubles(array, n) ==
    /\ Len(array) >= n
    /\ \A i \in 1..n : IsDouble(array[i])

firstFloats(array, n) == [i \in 1..n |-> toFloat(array[i])]

\* obj[key] is the nested value `field`: [error, info]
parseTextureObject(field, exts) ==
    IF ~IsObject(field) THEN [error |-> "None", info |-> ZeroTextureInfo]
    ELSE LET child == field.v IN
    IF ~IsUint(child.index) THEN [error |-> "InvalidGltf", info |-> ZeroTextureInfo]
    ELSE LET
        base == [ZeroTextureInfo EXCEPT
                    !.textureIndex  = child.index.n,
                    !.texCoordIndex = uintOr(child.texCoord, 0),
                    !.scale = IF IsDouble(child.scale) THEN toFloat(child.scale) ELSE 2]
    IN
    IF ~hasBit(exts, "KHR_texture_transform")
    THEN [error |-> "None",
          info |-> [base EXCEPT !.rotation = 0, !.uvOffset = <<0, 0>>, !.uvScale = <<2, 2>>]]
    ELSE IF ~(IsObject(child.extensions) /\ IsObject(child.extensions.v.KHR_texture_transform))
    THEN [error |-> "None", info |-> base]
    ELSE LET tt == child.extensions.v.KHR_texture_transform.v IN
    IF IsArray(tt.offset) /\ ~hasDoubles(tt.offset.v, 2)
    THEN [error |-> "InvalidGltf", info |-> base]
    ELSE IF IsArray(tt.scale) /\ ~hasDoubles(tt.scale.v, 2)
    THEN [error |-> "InvalidGltf", info |-> base]
    ELSE [error |-> "None",
          info |-> [base EXCEPT
              !.texCoordIndex = uintOr(tt.texCoord, base.texCoordIndex),
              !.rotation = IF IsDouble(tt.rotation) THEN toFloat(tt.rotation) ELSE 0,
              !.uvOffset = IF IsArray(tt.offset) THEN firstFloats(tt.offset.v, 2) ELSE @,
              !.uvScale  = IF IsArray(tt.scale) THEN firstFloats(tt.scale.v, 2) ELSE @]]

\* PBRData {} before its fields are read
NoPbrData ==
    [has |-> FALSE, baseColorFactor |-> <<0, 0, 0, 0>>, metallicFactor |-> 0,
     roughnessFactor |-> 0, baseColorTexture |-> ZeroTextureInfo,
     metallicRoughnessTexture |-> ZeroTextureInfo]

\* the pbrMetallicRoughness block: [error, pbr]
parsePbr(field, exts) ==
    IF ~IsObject(field) THEN [error |-> "None", pbr |-> NoPbrData]
    ELSE LET o   == field.v
             bct == parseTextureObject(o.baseColorTexture, exts)
             mrt == parseTextureObject(o.metallicRoughnessTexture, exts)
    IN
    IF IsArray(o.baseColorFactor) /\ ~hasDoubles(o.baseColorFactor.v, 4)
    THEN [error |-> "InvalidGltf", pbr |-> NoPbrData]
    ELSE IF bct.error # "None" THEN [error |-> bct.error, pbr |-> NoPbrData]
    ELSE IF mrt.error # "None" THEN [error |-> mrt.error, pbr |-> NoPbrData]
    ELSE [error |-> "None",
          pbr |-> [has |-> TRUE,
                   baseColorFactor |-> IF IsArray(o.baseColorFactor)
                                       THEN firstFloats(o.baseColorFactor.v, 4)
                                       ELSE <<2, 2, 2, 2>>,
                   metallicFactor  |-> IF IsDouble(o.metallicFactor)
                                       THEN toFloat(o.metallicFactor) ELSE 2,
                   roughnessFactor |-> IF IsDouble(o.roughnessFactor)
                                       THEN toFloat(o.roughnessFactor) ELSE 2,
                   baseColorTexture |-> bct.info,
                   metallicRoughnessTexture |-> mrt.info]]

parseMaterial(value, exts) ==
    IF ~IsObject(value) THEN Fail("InvalidGltf")
    ELSE LET o   == value.v
             nt  == parseTextureObject(o.normalTexture, exts)
             ot  == parseTextureObject(o.occlusionTexture, exts)
             et  == parseTextureObject(o.emissiveTexture, exts)
             pbr == parsePbr(o.pbrMetallicRoughness, exts)
    IN
    IF IsArray(o.emissiveFactor) /\ Len(o.emissiveFactor.v) # 3 THEN Fail("InvalidGltf")
    ELSE IF IsArray(o.emissiveFactor) /\ ~hasDoubles(o.emissiveFactor.v, 3)
    THEN Fail("InvalidGltf")
    ELSE IF nt.error # "None" THEN Fail(nt.error)
    ELSE IF ot.error # "None" THEN Fail(ot.error)
    ELSE IF et.error # "None" THEN Fail(et.error)
    ELSE IF pbr.error # "None" THEN Fail(pbr.error)
    ELSE Emit([emissiveFactor   |-> IF IsArray(o.emissiveFactor)
                                    THEN firstFloats(o.emissiveFactor.v, 3)
                                    ELSE <<0, 0, 0>>,
               normalTexture    |-> nt.info,
               occlusionTexture |-> ot.info,
               emissiveTexture  |-> et.info,
               pbrData          |-> pbr.pbr,
               name             |-> optName(o.name)])

parseMaterialsLoop(materials, exts) ==
    runLoop([i \in 1..Len(materials) |-> parseMaterial(materials[i], exts)])

-----------------------------------------------------------------------------
(* glTF::parseMeshes *)

\* one primitive; attributes is the sequence of the object's [key, value] fields
parsePrimitive(value) ==
    IF ~IsObject(value) THEN Fail("InvalidGltf")
    ELSE LET o == value.v IN
    IF ~IsObject(o.attributes) THEN Fail("InvalidGltf")
    ELSE IF \E i \in 1..Len(o.attributes.v) : ~IsUint(o.attributes.v[i].value)
    THEN Fail("InvalidGltf")
    ELSE Emit([attributes      |-> [i \in 1..Len(o.attributes.v) |->
                                      [key   |-> o.attributes.v[i].key,
                                       index |-> o.attributes.v[i].value.n]],
               type            |-> uintOr(o.mode, 4),
               indicesAccessor |-> optIndex(o.indices),
               materialIndex   |-> optIndex(o.material)])

\* a parseMesh that emits a mesh without primitives as an empty mesh
parseMeshKeepingAll(value) ==
    IF ~IsObject(value) THEN Fail("InvalidGltf")
    ELSE LET o         == value.v
             meshError == getJsonArray(o.primitives)
             prims     == runLoop([i \in 1..Len(o.primitives.v) |->
                                      parsePrimitive(o.primitives.v[i])])
    IN
    IF meshError = "MissingField"
    THEN Emit([primitives |-> << >>, name |-> optName(o.name)])
    ELSE IF meshError # "None" THEN Fail(meshError)
    ELSE IF prims.err # "None" THEN Fail(prims.err)
    ELSE Emit([primitives |-> prims.items, name |-> optName(o.name)])

parseMesh(value) ==
    IF ~IsObject(value) THEN Fail("InvalidGltf")
    ELSE LET o         == value.v
             meshError == getJsonArray(o.primitives)
             prims     == runLoop([i \in 1..Len(o.primitives.v) |->
                                      parsePrimitive(o.primitives.v[i])])
    IN
    IF meshError = "MissingField" THEN Skip
    ELSE IF meshError # "None" THEN Fail(meshError)
    ELSE IF prims.err # "None" THEN Fail(prims.err)
    ELSE Emit([primitives |-> prims.items, name |-> optName(o.name)])

parseMeshesLoop(meshes) ==
    runLoop([i \in 1..Len(meshes) |-> parseMesh(meshes[i])])

-----------------------------------------------------------------------------
(* glTF::parseNodes *)

\* auto i = 0U; for (auto num : array) { get_double or stop; field[i] = val; ++i; }
\* on a field that starts as init: the field afterwards, whether every element
\* was a number, and whether a store went past the end of the field
fillFloats(init, array) ==
    LET bad  == {i \in 1..Len(array) : ~IsDouble(array[i])}
        k    == IF bad = {} THEN Len(array) + 1
                ELSE CHOOSE i \in bad : \A j \in bad : i <= j
    IN  [field   |-> [j \in 1..Len(init) |-> IF j < k THEN toFloat(array[j]) ELSE init[j]],
         allNum  |-> bad = {},
         pastEnd |-> k - 1 > Len(init)]

IdentityMatrix == <<2,0,0,0, 0,2,0,0, 0,0,2,0, 0,0,0,2>>
ZeroFloats(n)  == [i \in 1..n |-> 0]

parseNode(value) ==
    IF ~IsObject(value) THEN Fail("InvalidGltf")
    ELSE LET o          == value.v
             childError == getJsonArray(o.children)
             m          == fillFloats(ZeroFloats(16), o.matrix.v)
             sc         == fillFloats(ZeroFloats(3), o.scale.v)
             tr         == fillFloats(ZeroFloats(3), o.translation.v)
             ro         == fillFloats(ZeroFloats(4), o.rotation.v)
    IN
    IF childError = "None" /\ \E i \in 1..Len(o.children.v) : ~IsUint(o.children.v[i])
    THEN Fail("InvalidGltf")
    ELSE IF childError # "None" THEN Fail(childError)
    ELSE IF IsArray(o.scale) /\ ~sc.allNum THEN Fail("InvalidGltf")
    ELSE IF IsArray(o.translation) /\ ~tr.allNum THEN Fail("InvalidGltf")
    ELSE IF IsArray(o.rotation) /\ ~ro.allNum THEN Fail("InvalidGltf")
    ELSE Emit([meshIndex   |-> optIndex(o.mesh),
               children    |-> [i \in 1..Len(o.children.v) |-> o.children.v[i].n],
               hasMatrix   |-> IsArray(o.matrix) /\ m.allNum,
               matrix      |-> IF IsArray(o.matrix) THEN m.field ELSE IdentityMatrix,
               scale       |-> IF IsArray(o.scale) THEN sc.field ELSE <<2, 2, 2>>,
               translation |-> IF IsArray(o.translation) THEN tr.field ELSE <<0, 0, 0>>,
               rotation    |-> IF IsArray(o.rotation) THEN ro.field ELSE <<0, 0, 0, 2>>,
               name        |-> optName(o.name)])

parseNodesLoop(nodes) ==
    runLoop([i \in 1..Len(nodes) |-> parseNode(nodes[i])])

\* TRUE when the loop body, run on this node, stores past the end of one of the
\* node's arrays: node.matrix[i], node.scale[i], node.translation[i] and
\* node.rotation[i] are stored for every leading number of the source array,
\* in this order, up to the return of the body
nodeStoresPastEnd(value) ==
    /\ IsObject(value)
    /\ LET o  == value.v
           m  == fillFloats(ZeroFloats(16), o.matrix.v)
           sc == fillFloats(ZeroFloats(3), o.scale.v)
           tr == fillFloats(ZeroFloats(3), o.translation.v)
           ro == fillFloats(ZeroFloats(4), o.rotation.v)
           scaleDone       == ~IsArray(o.scale) \/ sc.allNum
           translationDone == ~IsArray(o.translation) \/ tr.allNum
       IN  /\ getJsonArray(o.children) = "None"
           /\ \A i \in 1..Len(o.children.v) : IsUint(o.children.v[i])
           /\ \/ IsArray(o.matrix) /\ m.pastEnd
              \/ IsArray(o.scale) /\ sc.pastEnd
              \/ scaleDone /\ IsArray(o.translation) /\ tr.pastEnd
              \/ scaleDone /\ translationDone /\ IsArray(o.rotation) /\ ro.pastEnd

\* TRUE when a pass of the loop, up to and with the first that returns, stores
\* past the end of an array
storesPastEnd(nodes) ==
    LET k == firstFailure([i \in 1..Len(nodes) |-> parseNode(nodes[i])])
    IN  \E i \in 1..Len(nodes) : i <= k /\ nodeStoresPastEnd(nodes[i])

-----------------------------------------------------------------------------
(* glTF::parseScenes *)

parseScene(value) ==
    IF ~IsObject(value) THEN Fail("InvalidGltf")
    ELSE LET o         == value.v
             nodeError == getJsonArray(o.nodes)
    IN
    IF nodeError = "None" /\ \E i \in 1..Len(o.nodes.v) : ~IsUint(o.nodes.v[i])
    THEN Fail("InvalidGltf")
    ELSE IF nodeError = "None"
    THEN Emit([nodeIndices |-> [i \in 1..Len(o.nodes.v) |-> o.nodes.v[i].n],
               name        |-> optName(o.name)])
    ELSE IF nodeError # "None" THEN Fail(nodeError)
    ELSE Skip

parseScenesLoop(scenes) ==
    runLoop([i \in 1..Len(scenes) |-> parseScene(scenes[i])])

-----------------------------------------------------------------------------
(* getImageIndexForExtension, parseTextureExtensions, glTF::parseTextures *)

\* object[extension] is the nested value `field`:
\* <<invalidGltf, extensionNotPresent, imageIndex>> as a record
getImageIndexForExtension(field) ==
    IF ~IsObject(field)
    THEN [invalidGltf |-> FALSE, extensionNotPresent |-> TRUE, imageIndex |-> 0]
    ELSE IF ~IsUint(field.v.source)
    THEN [invalidGltf |-> TRUE, extensionNotPresent |-> FALSE, imageIndex |-> 0]
    ELSE [invalidGltf |-> FALSE, extensionNotPresent |-> FALSE,
          imageIndex |-> field.v.source.n]

\* [ok, imageIndex]: ok is the bool returned, imageIndex the texture's imageIndex
\* afterwards when it starts as imageIndex0
parseTextureExtensions(imageIndex0, extensionsObject, extensionFlags) ==
    LET basisu == getImageIndexForExtension(extensionsObject.KHR_texture_basisu)
        dds    == getImageIndexForExtension(extensionsObject.MSFT_texture_dds)
    IN
    IF hasBit(extensionFlags, "KHR_texture_basisu") /\ basisu.invalidGltf
    THEN [ok |-> FALSE, imageIndex |-> imageIndex0]
    ELSE IF hasBit(extensionFlags, "KHR_texture_basisu") /\ ~basisu.extensionNotPresent
    THEN [ok |-> TRUE, imageIndex |-> basisu.imageIndex]
    ELSE IF hasBit(extensionFlags, "MSFT_texture_dds") /\ dds.invalidGltf
    THEN [ok |-> FALSE, imageIndex |-> imageIndex0]
    ELSE IF hasBit(extensionFlags, "MSFT_texture_dds") /\ ~dds.extensionNotPresent
    THEN [ok |-> TRUE, imageIndex |-> dds.imageIndex]
    ELSE [ok |-> FALSE, imageIndex |-> imageIndex0]

parseTexture(value, exts) ==
    IF ~IsObject(value) THEN Fail("InvalidGltf")
    ELSE LET o             == value.v
             hasExtensions == IsObject(o.extensions)
             imageIndex    == IF IsUint(o.source) THEN o.source.n ELSE SizeMax
             fallback      == IF hasExtensions /\ imageIndex # SizeMax
                              THEN imageIndex ELSE SizeMax
             ext           == parseTextureExtensions(imageIndex, o.extensions.v, exts)
    IN
    IF ~IsUint(o.source) /\ ~hasExtensions THEN Fail("InvalidGltf")
    ELSE IF hasExtensions /\ ~ext.ok THEN Fail("InvalidGltf")
    ELSE Emit([imageIndex         |-> IF hasExtensions THEN ext.imageIndex ELSE imageIndex,
               fallbackImageIndex |-> fallback,
               samplerIndex       |-> optIndex(o.sampler),
               name               |-> optName(o.name)])

parseTexturesLoop(textures, exts) ==
    runLoop([i \in 1..Len(textures) |-> parseTexture(textures[i], exts)])

-----------------------------------------------------------------------------
(* Parser::loadGLTF *)

\* Asset {}
EmptyAsset ==
    [accessors |-> << >>, buffers |-> << >>, bufferViews |-> << >>, images |-> << >>,
     materials |-> << >>, meshes |-> << >>, nodes |-> << >>, scenes |-> << >>,
     textures |-> << >>, defaultScene |-> SizeMax]

NoAsset == [has |-> FALSE, asset |-> EmptyAsset]

\* the Error loadGLTF leaves in Parser::errorCode; it returns a handle exactly
\* when that is "None"
loadGLTF(in, exts) ==
    IF ~in.isDirectory THEN "InvalidPath"
    ELSE IF in.jsonData.json # "object" THEN "InvalidJson"
    ELSE IF ~hasBit(in.options, "DontRequireValidAssetMember")
            /\ ~checkAssetField(in.jsonData.root)
    THEN "InvalidOrMissingAssetField"
    ELSE checkExtensions(in.jsonData.root, exts)

\* loadGLTF restoring the default implementation when DontUseSIMD is not set
LoadGLTFRestoring ==
    /\ pc = "start"
    /\ LET e == loadGLTF(input, extensions) IN
       /\ parserError' = e
       /\ pc' = IF e = "None" THEN "loaded" ELSE "failed"
       /\ activeImplementation' =
            IF input.isDirectory /\ hasBit(input.options, "DontUseSIMD")
            THEN "fallback"
            ELSE IF input.isDirectory THEN "default" ELSE activeImplementation
       /\ IF e = "None"
          THEN /\ options' = input.options
               /\ directory' = input.directory
               /\ data' = input.jsonData.root
          ELSE UNCHANGED <<options, directory, data>>
    /\ lastOp' = "loadGLTF"
    /\ UNCHANGED <<input, file, otherLoad, bytesRead, extensions, glb, errorCode,
                   parsedAsset, assetMoved, callerAsset, ret, calls>>

LoadGLTF ==
    /\ pc = "start"
    /\ LET e == loadGLTF(input, extensions) IN
       /\ parserError' = e
       /\ pc' = IF e = "None" THEN "loaded" ELSE "failed"
       /\ activeImplementation' =
            IF input.isDirectory /\ hasBit(input.options, "DontUseSIMD")
            THEN "fallback" ELSE activeImplementation
       /\ IF e = "None"
          THEN /\ options' = input.options
               /\ directory' = input.directory
               /\ data' = input.jsonData.root
          ELSE UNCHANGED <<options, directory, data>>
    /\ lastOp' = "loadGLTF"
    /\ UNCHANGED <<input, file, otherLoad, bytesRead, extensions, glb, errorCode,
                   parsedAsset, assetMoved, callerAsset, ret, calls>>

-----------------------------------------------------------------------------
(* Parser::loadBinaryGLTF *)

\* ASCII "glTF", "JSON" and "BIN\0" as little-endian uint32
binaryGltfHeaderMagic == 1179937895
chunkTypeJson == 1313821514
chunkTypeBin  == 5130562

\* sizeof(BinaryGltfHeader), sizeof(BinaryGltfChunk)
sizeofHeader == 12
sizeofChunk  == 8

\* A GLB file: [isRegular, path, magic, version, length, chunks]; magic, version
\* and length are the header's fields, chunks the chunks the file really holds,
\* each [chunkLength, chunkType, doc, bytes] with doc the payload of a JSON
\* chunk as the DOM parser sees it and bytes the payload of any other chunk.
\* A chunk's payload has chunkLength bytes.

\* BinaryGltfChunk {}: what a chunk header holds when the read found no bytes
ZeroChunk ==
    [chunkLength |-> 0, chunkType |-> 0,
     doc |-> [json |-> "malformed", root |-> << >>], bytes |-> << >>]

\* the header of the k-th chunk: read() at the end of the file leaves it zeroed
chunkAt(f, k) == IF k <= Len(f.chunks) THEN f.chunks[k] ELSE ZeroChunk

\* the size of the file on disk
fileLength(f) ==
    sizeofHeader
    + (IF Len(f.chunks) >= 1 THEN sizeofChunk + f.chunks[1].chunkLength ELSE 0)
    + (IF Len(f.chunks) >= 2 THEN sizeofChunk + f.chunks[2].chunkLength ELSE 0)

\* fs::path::parent_path
parentPath(path) == SubSeq(path, 1, Len(path) - 1)

\* gltfFile.tellg() once the JSON payload has been read
tellgAfterJson(f) == sizeofHeader + sizeofChunk + chunkAt(f, 1).chunkLength

\* "Is there enough room for another chunk header?"
secondChunkExpected(f) == f.length > tellgAfterJson(f) + sizeofChunk

\* framingError without the test of the version
framingErrorNoVersion(f, debug) ==
    IF ~f.isRegular THEN "InvalidPath"
    ELSE IF f.magic # binaryGltfHeaderMagic THEN "InvalidGLB"
    ELSE IF debug /\ f.length # fileLength(f) THEN "InvalidGLB"
    ELSE IF chunkAt(f, 1).chunkType # chunkTypeJson THEN "InvalidGLB"
    ELSE "None"

\* the error of the framing tests made before the DOM parse, "None" if all pass;
\* debug is TRUE for a build with DEBUG defined
framingError(f, debug) ==
    IF ~f.isRegular THEN "InvalidPath"
    ELSE IF f.magic # binaryGltfHeaderMagic \/ f.version # 2 THEN "InvalidGLB"
    ELSE IF debug /\ f.length # fileLength(f) THEN "InvalidGLB"
    ELSE IF chunkAt(f, 1).chunkType # chunkTypeJson THEN "InvalidGLB"
    ELSE "None"

\* glbOf with the offset taken before the second chunk header was read
glbOfBeforeHeader(f, opts) ==
    IF hasBit(opts, "LoadGLBBuffers")
    THEN [isNull |-> FALSE, buffer |-> chunkAt(f, 2).bytes, file |-> f.path,
          fileOffset |-> 0, fileSize |-> 0]
    ELSE [isNull |-> FALSE, buffer |-> << >>, file |-> f.path,
          fileOffset |-> tellgAfterJson(f),
          fileSize |-> chunkAt(f, 2).chunkLength]

\* the GLBBuffer the handle is constructed with; the BIN payload is read only
\* with LoadGLBBuffers
glbOf(f, opts) ==
    IF hasBit(opts, "LoadGLBBuffers")
    THEN [isNull |-> FALSE, buffer |-> chunkAt(f, 2).bytes, file |-> f.path,
          fileOffset |-> 0, fileSize |-> 0]
    ELSE [isNull |-> FALSE, buffer |-> << >>, file |-> f.path,
          fileOffset |-> tellgAfterJson(f) + sizeofChunk,
          fileSize |-> chunkAt(f, 2).chunkLength]

\* the handle's checks, the same after either constructor
handleChecks(root, opts, exts) ==
    IF ~hasBit(opts, "DontRequireValidAssetMember") /\ ~checkAssetField(root)
    THEN "InvalidOrMissingAssetField"
    ELSE checkExtensions(root, exts)

\* Parser::loadBinaryGLTF: error is what it leaves in Parser::errorCode (a handle
\* is returned exactly when it is "None"), parsed is TRUE when the DOM parse
\* step was reached, consumed the number of bytes read from the file, glb and
\* directory what the handle is constructed with
loadBinaryGLTF(f, opts, exts, debug) ==
    LET early == framingError(f, debug)
        doc   == chunkAt(f, 1).doc
        none  == [error |-> early, parsed |-> FALSE, consumed |-> 0, glb |-> NoGlb,
                  directory |-> << >>]
    IN
    IF early # "None" THEN none
    ELSE IF doc.json # "object"
    THEN [none EXCEPT !.error = "InvalidJson", !.parsed = TRUE,
                      !.consumed = tellgAfterJson(f)]
    ELSE IF secondChunkExpected(f)
    THEN IF chunkAt(f, 2).chunkType # chunkTypeBin
         THEN [none EXCEPT !.error = "InvalidGLB", !.parsed = TRUE,
                           !.consumed = tellgAfterJson(f)
                               + (IF Len(f.chunks) >= 2 THEN sizeofChunk ELSE 0)]
         ELSE [error |-> handleChecks(doc.root, opts, exts), parsed |-> TRUE,
               consumed |-> tellgAfterJson(f) + sizeofChunk
                            + (IF hasBit(opts, "LoadGLBBuffers")
                               THEN chunkAt(f, 2).chunkLength ELSE 0),
               glb |-> glbOf(f, opts), directory |-> parentPath(f.path)]
    ELSE [error |-> handleChecks(doc.root, opts, exts), parsed |-> TRUE,
          consumed |-> tellgAfterJson(f), glb |-> NoGlb, directory |-> f.path]

-----------------------------------------------------------------------------
(* The parse<Entity> operations and getParsedAsset on a handle *)

\* A parse<Entity> call from its getJsonArray on: field is the top-level value,
\* loop the result of the routine's loop over it.  With parsedAsset moved from,
\* the first parsedAsset-> is a null dereference.
ParseCall(op, entity, field, loop) ==
    /\ pc = "loaded"
    /\ calls < MaxCalls
    /\ calls' = calls + 1
    /\ lastOp' = op
    /\ LET arrayError == getJsonArray(field) IN
       IF arrayError = "MissingField"
       THEN /\ ret' = "None"
            /\ UNCHANGED <<pc, errorCode, parsedAsset>>
       ELSE IF arrayError # "None"
       THEN /\ errorCode' = returnError(errorCode, arrayError)
            /\ ret' = errorCode'
            /\ UNCHANGED <<pc, parsedAsset>>
       ELSE IF assetMoved
       THEN /\ pc' = "crashed"
            /\ UNCHANGED <<errorCode, parsedAsset, ret>>
       ELSE /\ parsedAsset' = [parsedAsset EXCEPT ![entity] = @ \o loop.items]
            /\ errorCode' = IF loop.err # "None" THEN returnError(errorCode, loop.err)
                            ELSE errorCode
            /\ ret' = errorCode'
            /\ UNCHANGED pc
    /\ UNCHANGED <<input, file, otherLoad, bytesRead, activeImplementation,
                   extensions, parserError, options, directory, data, assetMoved,
                   callerAsset>>

ParseAccessors ==
    /\ ParseCall("parseAccessors", "accessors", data.accessors,
                 parseAccessorsLoop(data.accessors.v, options))
    /\ UNCHANGED glb

ParseBuffers ==
    /\ ParseCall("parseBuffers", "buffers", data.buffers,
                 parseBuffersLoop(data.buffers.v, glb, directory, options))
    /\ glb' = IF IsArray(data.buffers) /\ ~assetMoved
                 /\ movesGlbBuffer(data.buffers.v, glb, options)
              THEN [glb EXCEPT !.buffer = << >>] ELSE glb

ParseBufferViews ==
    /\ ParseCall("parseBufferViews", "bufferViews", data.bufferViews,
                 parseBufferViewsLoop(data.bufferViews.v))
    /\ UNCHANGED glb

ParseImages ==
    /\ \E locs \in [1..Len(data.images.v) -> ImageInitialLocations] :
          ParseCall("parseImages", "images", data.images,
                    parseImagesLoop(data.images.v, locs, directory, options))
    /\ UNCHANGED glb

ParseMaterials ==
    /\ ParseCall("parseMaterials", "materials", data.materials,
                 parseMaterialsLoop(data.materials.v, extensions))
    /\ UNCHANGED glb

ParseMeshes ==
    /\ ParseCall("parseMeshes", "meshes", data.meshes, parseMeshesLoop(data.meshes.v))
    /\ UNCHANGED glb

\* a store past the end of a std::array is undefined: the call either goes on
\* with the values stored within the arrays, or the process stops
ParseNodes ==
    /\ \E stops \in IF IsArray(data.nodes) /\ ~assetMoved /\ storesPastEnd(data.nodes.v)
                    THEN BOOLEAN ELSE {FALSE} :
          IF stops
          THEN /\ pc = "loaded"
               /\ calls < MaxCalls
               /\ calls' = calls + 1
               /\ lastOp' = "parseNodes"
               /\ pc' = "crashed"
               /\ UNCHANGED <<input, file, otherLoad, bytesRead, activeImplementation,
                              extensions, parserError, options, directory, data,
                              errorCode, parsedAsset, assetMoved, callerAsset, ret>>
          ELSE ParseCall("parseNodes", "nodes", data.nodes, parseNodesLoop(data.nodes.v))
    /\ UNCHANGED glb

\* parseScenes also reads the root's "scene" before its loop
ParseScenes ==
    /\ pc = "loaded"
    /\ calls < MaxCalls
    /\ calls' = calls + 1
    /\ lastOp' = "parseScenes"
    /\ LET sceneError == getJsonArray(data.scenes)
           loop       == parseScenesLoop(data.scenes.v)
       IN
       IF sceneError = "MissingField"
       THEN /\ ret' = "None"
            /\ UNCHANGED <<pc, errorCode, parsedAsset>>
       ELSE IF sceneError # "None"
       THEN /\ errorCode' = returnError(errorCode, sceneError)
            /\ ret' = errorCode'
            /\ UNCHANGED <<pc, parsedAsset>>
       ELSE IF assetMoved
       THEN /\ pc' = "crashed"
            /\ UNCHANGED <<errorCode, parsedAsset, ret>>
       ELSE /\ parsedAsset' =
                 [parsedAsset EXCEPT
                     !.defaultScene = IF IsUint(data.scene) THEN data.scene.n ELSE @,
                     !.scenes = @ \o loop.items]
            /\ errorCode' = IF loop.err # "None" THEN returnError(errorCode, loop.err)
                            ELSE errorCode
            /\ ret' = errorCode'
            /\ UNCHANGED pc
    /\ UNCHANGED <<input, file, otherLoad, bytesRead, activeImplementation,
                   extensions, parserError, options, directory, glb, data, assetMoved,
                   callerAsset>>

ParseTextures ==
    /\ ParseCall("parseTextures", "textures", data.textures,
                 parseTexturesLoop(data.textures.v, extensions))
    /\ UNCHANGED glb

\* glTF::getParsedAsset: nullptr after an error, else the asset is moved out
GetParsedAsset ==
    /\ pc = "loaded"
    /\ calls < MaxCalls
    /\ calls' = calls + 1
    /\ lastOp' = "getParsedAsset"
    /\ IF getParsedAsset(errorCode)
       THEN /\ callerAsset' = [has |-> ~assetMoved, asset |-> parsedAsset]
            /\ parsedAsset' = EmptyAsset
            /\ assetMoved' = TRUE
       ELSE /\ callerAsset' = NoAsset
            /\ UNCHANGED <<parsedAsset, assetMoved>>
    /\ UNCHANGED <<pc, input, file, otherLoad, bytesRead, activeImplementation,
                   extensions, parserError, options, directory, glb, data, errorCode,
                   ret>>

Next ==
    \/ LoadGLTF
    \/ ParseAccessors
    \/ ParseBuffers
    \/ ParseBufferViews
    \/ ParseImages
    \/ ParseMaterials
    \/ ParseMeshes
    \/ ParseNodes
    \/ ParseScenes
    \/ ParseTextures
    \/ GetParsedAsset

-----------------------------------------------------------------------------
(* Input documents *)

Obj(v)     == [t |-> "object", v |-> v]
\* a value of another JSON type where an object is looked for
NotObj(v)  == [t |-> "other", v |-> v]
\* no such key
NoObj(v)   == [t |-> "absent", v |-> v]
Arr(items) == [t |-> "array", v |-> items]
NotArr     == [t |-> "other", v |-> << >>]
NoArr      == [t |-> "absent", v |-> << >>]

textOther   == <<"x">>
uriRelative == <<"b",".","b","i","n">>
uriDataPng  == <<"d","a","t","a",":","i","m","a","g","e","/","p","n","g",";","b","a","s","e","6","4",",","A","Q","I","D">>
uriDataBad  == <<"d","a","t","a",":","i","m","a","g","e","/","p","n","g",",","A","Q","I","D">>
nameA       == <<"a">>
nameB       == <<"b">>
version20   == <<"2",".","0">>

AccessorObject ==
    [componentType |-> Num(5126), type |-> Str(typeVec3), count |-> Num(3),
     bufferView |-> Num(0), byteOffset |-> Absent, normalized |-> Absent,
     name |-> Str(nameA)]
BufferObject == [byteLength |-> Num(4), uri |-> Str(uriRelative), name |-> Absent]
BufferViewObject ==
    [buffer |-> Num(0), byteLength |-> Num(4), byteOffset |-> Absent,
     byteStride |-> Absent, target |-> Absent, name |-> Absent]
ImageObject ==
    [uri |-> Str(uriRelative), bufferView |-> Absent, mimeType |-> Absent,
     name |-> Absent]
TransformObject ==
    [texCoord |-> Absent, rotation |-> Absent, offset |-> NoArr, scale |-> NoArr]
TextureInfoObject ==
    [index |-> Num(0), texCoord |-> Absent, scale |-> Absent,
     extensions |-> NoObj([KHR_texture_transform |-> NoObj(TransformObject)])]
PbrObject ==
    [baseColorFactor |-> NoArr, metallicFactor |-> Absent, roughnessFactor |-> Absent,
     baseColorTexture |-> NoObj(TextureInfoObject),
     metallicRoughnessTexture |-> NoObj(TextureInfoObject)]
MaterialObject ==
    [emissiveFactor |-> NoArr, normalTexture |-> Obj(TextureInfoObject),
     occlusionTexture |-> NoObj(TextureInfoObject),
     emissiveTexture |-> NoObj(TextureInfoObject),
     pbrMetallicRoughness |-> Obj(PbrObject), name |-> Absent]
PrimitiveObject ==
    [attributes |-> Obj(<< [key |-> nameA, value |-> Num(0)] >>), mode |-> Absent,
     indices |-> Absent, material |-> Num(0)]
MeshObject == [primitives |-> Arr(<< Obj(PrimitiveObject) >>), name |-> Absent]
NodeObject ==
    [mesh |-> Num(0), children |-> Arr(<< Num(1) >>), matrix |-> NoArr, scale |-> NoArr,
     translation |-> NoArr, rotation |-> NoArr, name |-> Absent]
SceneObject == [name |-> Str(nameA), nodes |-> Arr(<< Num(0) >>)]
SourceExtension(source) == Obj([source |-> source])
NoSourceExtension == NoObj([source |-> Absent])
TextureExtensions(basisu, dds, unknown) ==
    [KHR_texture_basisu |-> basisu, MSFT_texture_dds |-> dds, unknownKeys |-> unknown]
NoTextureExtensions == TextureExtensions(NoSourceExtension, NoSourceExtension, FALSE)
TextureObject ==
    [source |-> Num(7), extensions |-> NoObj(NoTextureExtensions), sampler |-> Absent,
     name |-> Absent]

\* {"asset":{"version":"2.0"}}
MinimalRoot ==
    [asset |-> Obj([version |-> Str(version20)]), extensionsRequired |-> NoArr,
     scene |-> Absent, accessors |-> NoArr, buffers |-> NoArr, bufferViews |-> NoArr,
     images |-> NoArr, materials |-> NoArr, meshes |-> NoArr, nodes |-> NoArr,
     scenes |-> NoArr, textures |-> NoArr]

BaseDirectory == << <<"a","s","s","e","t","s">> >>

\* a load of the document root with no options and no extensions enabled
Scenario(root) ==
    [extensions |-> {}, json |-> "object", root |-> root, isDirectory |-> TRUE,
     options |-> {}]

\* a node that carries only a matrix whose last element is no number
MatrixOnlyNode ==
    [NodeObject EXCEPT
        !.mesh = Absent, !.children = NoArr,
        !.matrix = Arr(<< Num(1), Num(0), Num(0), Num(0), Num(0), Num(1), Num(0), Num(0),
                          Num(0), Num(0), Num(1), Num(0), Num(0), Num(0), Num(0),
                          Str(textOther) >>)]

AccessorArrays ==
    {NoArr, NotArr, Arr(<< Obj(AccessorObject) >>),
     Arr(<< Obj(AccessorObject), Obj([AccessorObject EXCEPT !.count = Absent]) >>)}
NodeArrays ==
    {NoArr, Arr(<< Obj(NodeObject) >>),
     Arr(<< Obj([NodeObject EXCEPT !.children = NoArr]) >>),
     Arr(<< Obj(NodeObject), Obj(MatrixOnlyNode) >>)}
SceneArrays ==
    {NoArr, Arr(<< Obj(SceneObject) >>),
     Arr(<< Obj(SceneObject),
            Obj([SceneObject EXCEPT !.name = Absent, !.nodes = NoArr]),
            Obj([SceneObject EXCEPT !.name = Str(nameB), !.nodes = Arr(<< Num(1) >>)]) >>)}
BufferArrays == {NoArr, Arr(<< Obj(BufferObject) >>)}

\* documents that vary four arrays together
MixedRoots ==
    {[MinimalRoot EXCEPT !.accessors = a, !.nodes = n, !.scenes = sc, !.buffers = b,
                         !.scene = Num(0)] :
        a \in AccessorArrays, n \in NodeArrays, sc \in SceneArrays, b \in BufferArrays}

\* documents with one array, well-formed or with one fault
SingleRoots ==
    {[MinimalRoot EXCEPT !.buffers = Arr(<< Obj([BufferObject EXCEPT !.uri = Absent]) >>)],
     [MinimalRoot EXCEPT !.bufferViews = Arr(<< Obj(BufferViewObject) >>)],
     [MinimalRoot EXCEPT
         !.bufferViews = Arr(<< Obj(BufferViewObject), NotObj(BufferViewObject) >>)],
     [MinimalRoot EXCEPT !.images = Arr(<< Obj(ImageObject) >>)],
     [MinimalRoot EXCEPT
         !.images = Arr(<< Obj([ImageObject EXCEPT !.uri = Str(uriDataBad)]) >>)],
     [MinimalRoot EXCEPT !.materials = Arr(<< Obj(MaterialObject) >>)],
     [MinimalRoot EXCEPT
         !.materials = Arr(<< Obj([MaterialObject EXCEPT
                                     !.emissiveFactor = Arr(<< Num(1), Num(1) >>)]) >>)],
     [MinimalRoot EXCEPT
         !.meshes = Arr(<< Obj(MeshObject), Obj([MeshObject EXCEPT !.primitives = NoArr]),
                           Obj([MeshObject EXCEPT !.name = Str(nameB)]) >>)],
     [MinimalRoot EXCEPT
         !.meshes = Arr(<< Obj([MeshObject EXCEPT !.primitives = Arr(<<
                              Obj([PrimitiveObject EXCEPT
                                     !.attributes = NoObj(<< >>)]) >>)]) >>)],
     [MinimalRoot EXCEPT !.textures = Arr(<< Obj(TextureObject) >>)],
     [MinimalRoot EXCEPT
         !.textures = Arr(<< Obj([TextureObject EXCEPT !.source = Absent]) >>)]}

ScenariosMain == {Scenario(r) : r \in MixedRoots \cup SingleRoots}

-----------------------------------------------------------------------------
(* Loads from a GLB file, and loads of other documents *)

GlbPath == BaseDirectory \o << <<"m",".","g","l","b">> >>

JsonChunk(doc, n) ==
    [chunkLength |-> n, chunkType |-> chunkTypeJson, doc |-> doc, bytes |-> << >>]
BinChunk(type, bytes) ==
    [chunkLength |-> Len(bytes), chunkType |-> type,
     doc |-> [json |-> "malformed", root |-> MinimalRoot], bytes |-> bytes]

\* no file at hand
NoFile ==
    [isRegular |-> FALSE, path |-> << >>, magic |-> 0, version |-> 0, length |-> 0,
     chunks |-> << >>]

\* a well-formed GLB file holding the chunks
GlbFile(chunks) ==
    LET f == [isRegular |-> TRUE, path |-> GlbPath, magic |-> binaryGltfHeaderMagic,
              version |-> 2, length |-> 0, chunks |-> chunks]
    IN  [f EXCEPT !.length = fileLength(f)]

\* no load of another document has been made
NoOtherLoad == [op |-> "none", options |-> {}, file |-> NoFile, error |-> "None"]

\* a root on which every lookup fails
UnreadableRoot ==
    [asset |-> NoObj([version |-> Absent]), extensionsRequired |-> NoArr,
     scene |-> Absent, accessors |-> NoArr, buffers |-> NoArr, bufferViews |-> NoArr,
     images |-> NoArr, materials |-> NoArr, meshes |-> NoArr, nodes |-> NoArr,
     scenes |-> NoArr, textures |-> NoArr]

\* Parser::loadBinaryGLTF for the document this handle is for
LoadBinaryGLTF ==
    /\ pc = "start"
    /\ \E debug \in BOOLEAN :
         LET r == loadBinaryGLTF(file, input.options, extensions, debug) IN
         /\ parserError' = r.error
         /\ pc' = IF r.error = "None" THEN "loaded" ELSE "failed"
         /\ activeImplementation' =
              IF r.parsed /\ hasBit(input.options, "DontUseSIMD")
              THEN "fallback" ELSE activeImplementation
         /\ bytesRead' = r.consumed
         /\ IF r.error = "None"
            THEN /\ options' = input.options
                 /\ directory' = r.directory
                 /\ glb' = r.glb
                 /\ data' = chunkAt(file, 1).doc.root
            ELSE UNCHANGED <<options, directory, glb, data>>
    /\ lastOp' = "loadBinaryGLTF"
    /\ UNCHANGED <<input, file, otherLoad, extensions, errorCode, parsedAsset,
                   assetMoved, callerAsset, ret, calls>>

\* jsonParser->parse(...).get(data->root) stores in the handle a dom::object,
\* which is a position in the document that the Parser's dom::parser owns; the
\* handle's ParserData::doc stays empty.  The next parse of that dom::parser
\* rewrites the document: a view taken before reads the new document where that
\* is an object, and where the parse failed or gave no object it reads what the
\* failed parse left, the old content or nothing usable.
domAfter(view, doc) ==
    IF doc.json = "object" THEN {doc.root} ELSE {view, UnreadableRoot}

\* the documents, directories and options of the other loads
OtherDocuments ==
    {[json |-> "object",
      root |-> [MinimalRoot EXCEPT !.accessors = Arr(<< Obj(AccessorObject) >>)]],
     [json |-> "malformed", root |-> MinimalRoot]}
OtherOptions == {{}, {"DontUseSIMD"}}
OtherFiles ==
    {NoFile,
     GlbFile(<< JsonChunk([json |-> "object", root |-> MinimalRoot], 2) >>),
     [GlbFile(<< JsonChunk([json |-> "object", root |-> MinimalRoot], 2) >>)
         EXCEPT !.version = 1],
     GlbFile(<< JsonChunk([json |-> "object", root |-> MinimalRoot], 2),
                BinChunk(0, << 7 >>) >>)}

\* Parser::loadGLTF for another document, through this Parser (same) or through
\* another Parser of the process; the handle it returns is not used further
LoadOtherGLTF ==
    /\ pc \in {"start", "loaded", "failed"}
    /\ calls < MaxCalls
    /\ \E doc \in OtherDocuments, isDir \in BOOLEAN, opts \in OtherOptions,
          same \in BOOLEAN :
         LET in == [jsonData |-> doc, directory |-> BaseDirectory,
                    isDirectory |-> isDir, options |-> opts]
             e  == loadGLTF(in, extensions)
         IN
         /\ otherLoad' = [op |-> "loadGLTF", options |-> opts, file |-> NoFile,
                          error |-> e]
         /\ parserError' = IF same THEN e ELSE parserError
         /\ activeImplementation' =
              IF isDir /\ hasBit(opts, "DontUseSIMD")
              THEN "fallback" ELSE activeImplementation
         /\ data' \in IF same /\ isDir /\ pc = "loaded"
                      THEN domAfter(data, doc) ELSE {data}
    /\ calls' = calls + 1
    /\ lastOp' = "loadGLTF(other)"
    /\ UNCHANGED <<pc, input, file, bytesRead, extensions, options, directory, glb,
                   errorCode, parsedAsset, assetMoved, callerAsset, ret>>

\* Parser::loadBinaryGLTF for another document
LoadOtherBinaryGLTF ==
    /\ pc \in {"start", "loaded", "failed"}
    /\ calls < MaxCalls
    /\ \E f \in OtherFiles, opts \in OtherOptions, same \in BOOLEAN,
          debug \in BOOLEAN :
         LET r == loadBinaryGLTF(f, opts, extensions, debug) IN
         /\ otherLoad' = [op |-> "loadBinaryGLTF", options |-> opts, file |-> f,
                          error |-> r.error]
         /\ parserError' = IF same THEN r.error ELSE parserError
         /\ activeImplementation' =
              IF r.parsed /\ hasBit(opts, "DontUseSIMD")
              THEN "fallback" ELSE activeImplementation
         /\ data' \in IF same /\ r.parsed /\ pc = "loaded"
                      THEN domAfter(data, chunkAt(f, 1).doc) ELSE {data}
    /\ calls' = calls + 1
    /\ lastOp' = "loadBinaryGLTF(other)"
    /\ UNCHANGED <<pc, input, file, bytesRead, extensions, options, directory, glb,
                   errorCode, parsedAsset, assetMoved, callerAsset, ret>>

\* the operations of a Parser whose caller also loads GLB files
NextGlb ==
    \/ Next
    \/ LoadBinaryGLTF

\* the operations of a process that loads several documents
NextParser ==
    \/ NextGlb
    \/ LoadOtherGLTF
    \/ LoadOtherBinaryGLTF

-----------------------------------------------------------------------------
(* Specifications *)

\* a Parser constructed with the scenario's extensions, and the arguments of the
\* load the caller is about to make
InitWith(scenarios, files) ==
    \E sc \in scenarios, f \in files :
        /\ pc = "start"
        /\ file = f
        /\ otherLoad = NoOtherLoad
        /\ bytesRead = 0
        /\ input = [jsonData |-> [json |-> sc.json, root |-> sc.root],
                    directory |-> BaseDirectory, isDirectory |-> sc.isDirectory,
                    options |-> sc.options]
        /\ activeImplementation = "default"
        /\ extensions = sc.extensions
        /\ parserError = "None"
        /\ options = {}
        /\ directory = << >>
        /\ glb = NoGlb
        /\ data = MinimalRoot
        /\ errorCode = "None"
        /\ parsedAsset = EmptyAsset
        /\ assetMoved = FALSE
        /\ callerAsset = NoAsset
        /\ lastOp = "Parser"
        /\ ret = "None"
        /\ calls = 0

InitFrom(scenarios) == InitWith(scenarios, {NoFile})

Init == InitFrom(ScenariosMain)

Spec == Init /\ [][Next]_vars

-----------------------------------------------------------------------------
(* Loads: the document's asset member and extensionsRequired, the options *)

nameUnknown == <<"E","X","T","_","u","n","k","n","o","w","n">>

AssetMembers ==
    {NoObj([version |-> Absent]), NotObj([version |-> Absent]),
     Obj([version |-> Absent]), Obj([version |-> Num(2)]),
     Obj([version |-> Str(version20)])}

RequiredNames == {Str(nameBasisu), Str(nameTransform), Str(nameDds), Str(nameUnknown)}

RequiredArrays ==
    {NoArr, NotArr, Arr(<< >>), Arr(<< Num(1) >>)}
    \cup {Arr(<< a >>) : a \in RequiredNames}
    \cup {Arr(<< a, b >>) : a \in RequiredNames, b \in RequiredNames}

LoadOptionSets == {{}, {"DontRequireValidAssetMember"}, {"DontUseSIMD"}}

ScenariosLoad ==
    {[extensions |-> e, json |-> "object",
      root |-> [MinimalRoot EXCEPT !.asset = a, !.extensionsRequired = r],
      isDirectory |-> TRUE, options |-> o] :
        e \in SUBSET AllExtensions, a \in AssetMembers, r \in RequiredArrays,
        o \in LoadOptionSets}
    \cup
    {[extensions |-> {}, json |-> j,
      root |-> [MinimalRoot EXCEPT !.asset = a, !.extensionsRequired = r],
      isDirectory |-> d, options |-> o] :
        j \in {"malformed", "other", "object"}, d \in BOOLEAN,
        a \in {NoObj([version |-> Absent]), Obj([version |-> Str(version20)])},
        r \in {NoArr, Arr(<< Str(nameUnknown) >>)},
        o \in LoadOptionSets}

InitLoad == InitFrom(ScenariosLoad)

SpecLoad == InitLoad /\ [][Next]_vars

-----------------------------------------------------------------------------
(* Textures: every shape of source and extensions, under every enabled set *)

TextureSources == {Absent, Num(7), Str(textOther)}

ExtensionEntries(n) ==
    {NoSourceExtension, NotObj([source |-> Absent]), SourceExtension(Num(n)),
     SourceExtension(Absent)}

TextureExtensionValues ==
    {NoObj(NoTextureExtensions), NotObj(NoTextureExtensions)}
    \cup {Obj(TextureExtensions(b, d, u)) :
            b \in ExtensionEntries(9), d \in ExtensionEntries(5), u \in BOOLEAN}

TextureObjects ==
    {[TextureObject EXCEPT !.source = src, !.extensions = x] :
        src \in TextureSources, x \in TextureExtensionValues}

ScenariosTextures ==
    {[Scenario([MinimalRoot EXCEPT !.textures = Arr(<< Obj(tx) >>)])
        EXCEPT !.extensions = e] :
        tx \in TextureObjects, e \in SUBSET AllExtensions}

InitTextures == InitFrom(ScenariosTextures)

SpecTextures == InitTextures /\ [][Next]_vars

-----------------------------------------------------------------------------
(* Images: every shape of uri, bufferView and mimeType *)

ImageObjects ==
    {[ImageObject EXCEPT !.uri = u, !.bufferView = b, !.mimeType = m] :
        u \in {Absent, Num(1), Str(uriRelative), Str(uriDataPng), Str(uriDataBad)},
        b \in {Absent, Num(2), Str(textOther)},
        m \in {Absent, Num(1), Str(mimeTypePng)}}

ScenariosImages ==
    {Scenario([MinimalRoot EXCEPT !.images = Arr(<< Obj(im) >>)]) : im \in ImageObjects}
    \cup
    {Scenario([MinimalRoot EXCEPT !.images = Arr(<< Obj(ImageObject), Obj(im) >>)]) :
        im \in {[ImageObject EXCEPT !.uri = Absent, !.bufferView = Num(2),
                                    !.mimeType = Str(mimeTypePng)],
                [ImageObject EXCEPT !.uri = Absent]}}

InitImages == InitFrom(ScenariosImages)

SpecImages == InitImages /\ [][Next]_vars

-----------------------------------------------------------------------------
(* GLB files: every fault of the framing, with and without a BIN chunk, around
   documents whose buffers have a uri or none *)

uriDataOctet == <<"d","a","t","a",":","a","p","p","l","i","c","a","t","i","o","n","/","o","c","t","e","t","-","s","t","r","e","a","m",";","b","a","s","e","6","4",",","A","Q","I","D">>

BufferNoUri == Obj([BufferObject EXCEPT !.uri = Absent])

GlbBufferArrays ==
    {Arr(<< BufferNoUri >>),
     Arr(<< Obj(BufferObject), BufferNoUri >>),
     Arr(<< Obj(BufferObject) >>),
     Arr(<< Obj([BufferObject EXCEPT !.uri = Str(uriDataOctet)]) >>),
     Arr(<< BufferNoUri, BufferNoUri >>)}

GlbDocuments ==
    {[json |-> "object", root |-> [MinimalRoot EXCEPT !.buffers = b]] :
        b \in GlbBufferArrays}

BrokenDocuments ==
    {[json |-> "malformed", root |-> MinimalRoot],
     [json |-> "other", root |-> MinimalRoot]}

binPayload == << 7, 8, 9 >>

\* the files built around one JSON payload
GlbFilesOf(doc) ==
    LET plain   == GlbFile(<< JsonChunk(doc, 32) >>)
        withBin == GlbFile(<< JsonChunk(doc, 32), BinChunk(chunkTypeBin, binPayload) >>)
        short   == GlbFile(<< JsonChunk(doc, 8), BinChunk(chunkTypeBin, << 9 >>) >>)
        empty   == GlbFile(<< JsonChunk(doc, 8), BinChunk(chunkTypeBin, << >>) >>)
    IN  {plain, withBin, short, empty,
         \* the header's length stops before the BIN chunk
         [short EXCEPT !.length = 28],
         \* the header's length promises a chunk the file does not hold
         [plain EXCEPT !.length = 100],
         [withBin EXCEPT !.magic = 0],
         [withBin EXCEPT !.version = 1],
         [plain EXCEPT !.isRegular = FALSE],
         GlbFile(<< [JsonChunk(doc, 32) EXCEPT !.chunkType = chunkTypeBin] >>),
         GlbFile(<< JsonChunk(doc, 32), BinChunk(chunkTypeJson, binPayload) >>),
         GlbFile(<< >>)}

GlbFiles == UNION {GlbFilesOf(doc) : doc \in GlbDocuments \cup BrokenDocuments}

GlbOptionSets == {{}, {"LoadGLBBuffers"}, {"DontUseSIMD"}}

\* the same documents as plain JSON
ScenariosJsonBuffers ==
    {[Scenario(doc.root) EXCEPT !.options = o] :
        doc \in GlbDocuments, o \in GlbOptionSets}

\* a caller that has no directory to load JSON from, only a GLB file
ScenariosGlbOnly ==
    {[Scenario(MinimalRoot) EXCEPT !.isDirectory = FALSE, !.options = o] :
        o \in GlbOptionSets}

InitGlb ==
    \/ InitWith(ScenariosJsonBuffers, {NoFile})
    \/ InitWith(ScenariosGlbOnly, GlbFiles)

SpecGlb == InitGlb /\ [][NextGlb]_vars

-----------------------------------------------------------------------------
(* One Parser, several documents *)

\* the document loaded as JSON and the document loaded from a GLB file
JsonRoot ==
    [MinimalRoot EXCEPT !.nodes = Arr(<< Obj(NodeObject) >>),
                        !.meshes = Arr(<< Obj(MeshObject) >>)]
GlbRoot == [MinimalRoot EXCEPT !.buffers = Arr(<< BufferNoUri >>)]

ScenariosParser == {[Scenario(JsonRoot) EXCEPT !.options = o] : o \in OtherOptions}

ParserFiles ==
    {GlbFile(<< JsonChunk([json |-> "object", root |-> GlbRoot], 32),
                BinChunk(chunkTypeBin, binPayload) >>),
     [GlbFile(<< JsonChunk([json |-> "object", root |-> GlbRoot], 32) >>)
         EXCEPT !.magic = 0]}

InitParser == InitWith(ScenariosParser, ParserFiles)

SpecParser == InitParser /\ [][NextParser]_vars

-----------------------------------------------------------------------------
(* Top-level arrays: absent, empty, of another type, for each of the nine *)

EntityFields == {"accessors", "buffers", "bufferViews", "images", "materials",
                 "meshes", "nodes", "scenes", "textures"}

ArrayShapes == {NoArr, Arr(<< >>), NotArr}

\* one field varied in a document that is well-formed elsewhere
ArrayRoots ==
    {[[MinimalRoot EXCEPT !.accessors = Arr(<< Obj(AccessorObject) >>),
                          !.bufferViews = Arr(<< Obj(BufferViewObject) >>),
                          !.textures = Arr(<< >>),
                          !.scene = Num(0)]
         EXCEPT ![f] = shape] : f \in EntityFields, shape \in ArrayShapes}
    \cup {[MinimalRoot EXCEPT !.accessors = x, !.scenes = y, !.textures = z] :
            x \in ArrayShapes, y \in ArrayShapes, z \in ArrayShapes}

ScenariosArrays == {Scenario(r) : r \in ArrayRoots}

InitArrays == InitFrom(ScenariosArrays)

SpecArrays == InitArrays /\ [][Next]_vars

-----------------------------------------------------------------------------
(* Meshes with and without primitives, and the nodes that refer to them *)

nameC == <<"c">>

SecondPrimitive ==
    [attributes |-> Obj(<< [key |-> nameB, value |-> Num(2)],
                           [key |-> nameC, value |-> Num(1)] >>),
     mode |-> Num(1), indices |-> Num(3), material |-> Absent]

MeshValues ==
    {Obj(MeshObject),
     Obj([primitives |-> Arr(<< Obj(SecondPrimitive), Obj(PrimitiveObject) >>),
          name |-> Str(nameB)]),
     Obj([primitives |-> Arr(<< >>), name |-> Str(nameC)]),
     Obj([MeshObject EXCEPT !.primitives = NoArr]),
     Obj([MeshObject EXCEPT !.primitives = NotArr]),
     Obj([MeshObject EXCEPT !.primitives = Arr(<< Obj(PrimitiveObject), Num(5) >>)]),
     Obj([MeshObject EXCEPT !.primitives =
            Arr(<< Obj([PrimitiveObject EXCEPT !.attributes = NoObj(<< >>)]) >>)]),
     Obj([MeshObject EXCEPT !.primitives =
            Arr(<< Obj([PrimitiveObject EXCEPT !.attributes =
                          Obj(<< [key |-> nameA, value |-> Str(textOther)] >>)]) >>)])}

MeshArrays ==
    {<< m >> : m \in MeshValues} \cup {<< m, n >> : m \in MeshValues, n \in MeshValues}

\* a node that uses the second mesh of the document
SecondMeshNode == [NodeObject EXCEPT !.mesh = Num(1), !.children = Arr(<< >>)]

MeshRoots ==
    {[MinimalRoot EXCEPT !.meshes = Arr(ms),
                         !.nodes = Arr(<< Obj(SecondMeshNode) >>),
                         !.scenes = Arr(<< Obj(SceneObject) >>)] : ms \in MeshArrays}

ScenariosMeshes == {Scenario(r) : r \in MeshRoots}

InitMeshes == InitFrom(ScenariosMeshes)

SpecMeshes == InitMeshes /\ [][Next]_vars

-----------------------------------------------------------------------------
(* Buffers whose uri is a file name or a data URI *)

uriDataBin       == <<"d","a","t","a",".","b","i","n">>
uriDatabase      == <<"d","a","t","a","b","a","s","e","/","b","u","f",".","b","i","n">>
uriDat           == <<"d","a","t">>
uriDataxBase64   == <<"d","a","t","a","x",";","b","a","s","e","6","4",",","A","Q","I","D">>
uriDataNoComma   == <<"d","a","t","a",":","i","m","a","g","e","/","p","n","g",";","b","a","s","e","6","4">>
uriDataBase32    == <<"d","a","t","a",":","i","m","a","g","e","/","p","n","g",";","b","a","s","e","3","2",",","A","Q","I","D">>
uriDataCharset   == <<"d","a","t","a",":","i","m","a","g","e","/","p","n","g",";","c","h","a","r","s","e","t","=","x",";","b","a","s","e","6","4",",","A","Q","I","D">>
uriDataCommaOnly == <<"d","a","t","a",":",",","A","Q","I","D",";","b","a","s","e","6","4">>
uriDataUnknown   == <<"d","a","t","a",":","t","e","x","t","/","p","l","a","i","n",";","b","a","s","e","6","4",",","A","Q","I","D">>

Uris ==
    {<< >>, uriRelative, uriDat, uriDataBin, uriDatabase, uriDataxBase64, uriDataPng,
     uriDataOctet, uriDataUnknown, uriDataBad, uriDataNoComma, uriDataBase32,
     uriDataCharset, uriDataCommaOnly}

UriRoots ==
    {[MinimalRoot EXCEPT
        !.buffers = Arr(<< Obj([BufferObject EXCEPT !.uri = Str(u)]) >>)] : u \in Uris}

ScenariosUris ==
    {[Scenario(r) EXCEPT !.options = o] : r \in UriRoots, o \in {{}, {"DontUseSIMD"}}}

InitUris == InitFrom(ScenariosUris)

SpecUris == InitUris /\ [][Next]_vars

-----------------------------------------------------------------------------
(* Materials whose colour arrays have the right and the wrong lengths *)

\* n numbers: 1, then 0.5, then 0, 0, ...
Floats(n) == [i \in 1..n |-> IF i = 1 THEN Num(1) ELSE IF i = 2 THEN Dbl ELSE Num(0)]

EmissiveFactors ==
    {NoArr, Arr(Floats(2)), Arr(Floats(3)), Arr(Floats(4)),
     Arr(<< Num(1), Str(textOther), Num(0) >>)}

BaseColorFactors ==
    {NoArr, Arr(Floats(3)), Arr(Floats(4)), Arr(Floats(5)),
     Arr(<< Num(1), Num(1), Num(1), Str(textOther) >>)}

MaterialRoots ==
    {[MinimalRoot EXCEPT !.materials = Arr(<< Obj([MaterialObject EXCEPT
          !.emissiveFactor = ef,
          !.pbrMetallicRoughness = Obj([PbrObject EXCEPT !.baseColorFactor = bcf])]) >>)] :
       ef \in EmissiveFactors, bcf \in BaseColorFactors}

ScenariosMaterials == {Scenario(r) : r \in MaterialRoots}

InitMaterials == InitFrom(ScenariosMaterials)

SpecMaterials == InitMaterials /\ [][Next]_vars

-----------------------------------------------------------------------------
(* Nodes whose transform arrays are shorter than, as long as and longer than
   the fields they are stored in *)

NodeMatrices     == {NoArr, Arr(Floats(16)), Arr(Floats(17))}
NodeVec3s        == {NoArr, Arr(Floats(2)), Arr(Floats(3)), Arr(Floats(4))}
NodeQuaternions  == {NoArr, Arr(Floats(4)), Arr(Floats(5))}

NodeRoots ==
    {[MinimalRoot EXCEPT !.nodes = Arr(<< Obj([NodeObject EXCEPT
          !.children = Arr(<< >>), !.matrix = m, !.scale = sc,
          !.translation = tr, !.rotation = ro]) >>)] :
       m \in NodeMatrices, sc \in NodeVec3s, tr \in NodeVec3s, ro \in NodeQuaternions}

ScenariosNodes == {Scenario(r) : r \in NodeRoots}

InitNodes == InitFrom(ScenariosNodes)

SpecNodes == InitNodes /\ [][Next]_vars

-----------------------------------------------------------------------------
(* Properties of the sticky error *)

ParseOps == {"parseAccessors", "parseBuffers", "parseBufferViews", "parseImages",
             "parseMaterials", "parseMeshes", "parseNodes", "parseScenes",
             "parseTextures"}

\* this step is a parse<Entity> call that returned
ParseReturned == calls' = calls + 1 /\ lastOp' \in ParseOps /\ pc' = "loaded"

\* this step is a getParsedAsset call
AssetTaken == calls' = calls + 1 /\ lastOp' = "getParsedAsset"

\* C1: a parse<Entity> call that returns an error leaves the handle's errorCode
\* set, an errorCode that is set is never reset to None, and getParsedAsset on a
\* handle whose errorCode is set returns nothing.
C1_ErrorLatchedAssetWithheld ==
    [][ /\ (ParseReturned /\ ret' # "None") => errorCode' # "None"
        /\ errorCode # "None" => errorCode' # "None"
        /\ (AssetTaken /\ errorCode # "None") => callerAsset' = NoAsset ]_vars

\* a partly built asset (one accessor appended, the next one rejected) was asked
\* for and withheld
C1_Witness ==
    /\ lastOp = "getParsedAsset"
    /\ errorCode # "None"
    /\ Len(parsedAsset.accessors) > 0
    /\ callerAsset = NoAsset

\* C2: once a parse<Entity> call has failed, the errorCode it latched is the
\* one the handle keeps: a later failing call does not replace it.
C2_FirstErrorKept ==
    [][ errorCode # "None" => errorCode' = errorCode ]_vars

\* C3: after a failed parse<Entity> call every later parse<Entity> call returns
\* an error and appends nothing to the asset.
C3_LaterCallsShortCircuit ==
    [][ (ParseReturned /\ errorCode # "None")
            => (ret' # "None" /\ parsedAsset' = parsedAsset) ]_vars

-----------------------------------------------------------------------------
(* Properties of the load *)

\* the load returned a handle
HandleReturned == pc \in {"loaded", "crashed"}

RegistryNames == {extensionStrings[i].name : i \in 1..Len(extensionStrings)}

\* the flag the registry pairs with a registry name
ownFlag(name) ==
    extensionStrings[CHOOSE i \in 1..Len(extensionStrings) :
                        extensionStrings[i].name = name].flag

\* the gate as specified, entry by entry in array order
specifiedGate(required, exts) ==
    LET bad == {i \in 1..Len(required) :
                   \/ required[i].s \notin RegistryNames
                   \/ ~hasBit(exts, ownFlag(required[i].s))}
    IN  IF bad = {} THEN "None"
        ELSE LET k == CHOOSE i \in bad : \A j \in bad : i <= j
             IN  IF required[k].s \notin RegistryNames THEN "UnsupportedExtensions"
                 ELSE "MissingExtensions"

\* the load got as far as the extension gate, over an extensionsRequired array
\* of strings
GateReached ==
    /\ pc # "start"
    /\ input.isDirectory
    /\ input.jsonData.json = "object"
    /\ \/ hasBit(input.options, "DontRequireValidAssetMember")
       \/ checkAssetField(input.jsonData.root)
    /\ IsArray(input.jsonData.root.extensionsRequired)
    /\ \A i \in 1..Len(input.jsonData.root.extensionsRequired.v) :
          IsString(input.jsonData.root.extensionsRequired.v[i])

\* C4: the gate fails the load with UnsupportedExtensions at the first entry
\* that is no registry name, with MissingExtensions at the first registry name
\* whose own flag is not enabled, and passes only if every entry is a registry
\* name whose own flag is enabled.
C4_GatePerEntry ==
    GateReached =>
        /\ parserError = specifiedGate(input.jsonData.root.extensionsRequired.v, extensions)
        /\ HandleReturned <=> parserError = "None"

\* C5: after loadGLTF on a directory, a handle is returned exactly when no
\* precondition fails; a DOM parse failure gives InvalidJson; else a missing or
\* malformed asset member gives InvalidOrMissingAssetField unless
\* DontRequireValidAssetMember is set; else the extension gate decides: it
\* passes a document without extensionsRequired and rejects a first required
\* name outside the registry with UnsupportedExtensions, also when the asset
\* check was skipped.
C5_LoadPreconditionsInOrder ==
    (pc # "start" /\ input.isDirectory) =>
        LET root     == input.jsonData.root
            parsed   == input.jsonData.json = "object"
            skip     == hasBit(input.options, "DontRequireValidAssetMember")
            assetOk  == root.asset.t = "object" /\ root.asset.v.version.t = "string"
            required == root.extensionsRequired
        IN  /\ HandleReturned <=> parserError = "None"
            /\ ~parsed => parserError = "InvalidJson"
            /\ (parsed /\ ~skip /\ ~assetOk) => parserError = "InvalidOrMissingAssetField"
            /\ (parsed /\ (skip \/ assetOk)) =>
                  /\ parserError \in {"None", "UnsupportedExtensions",
                                      "MissingExtensions", "InvalidGltf"}
                  /\ required.t # "array" => parserError = "None"
                  /\ (/\ required.t = "array"
                      /\ Len(required.v) >= 1
                      /\ required.v[1].t = "string"
                      /\ required.v[1].s \notin RegistryNames)
                        => parserError = "UnsupportedExtensions"

\* a document without an asset member was loaded with
\* DontRequireValidAssetMember
C5_Witness ==
    /\ lastOp = "loadGLTF"
    /\ pc = "loaded"
    /\ hasBit(options, "DontRequireValidAssetMember")
    /\ data.asset.t = "absent"

-----------------------------------------------------------------------------
(* Properties of parseTextures *)

\* the first call on the handle was this parse<Entity>, and it returned
FirstCallWas(op) == lastOp = op /\ calls = 1 /\ pc = "loaded"

\* an enabled extension whose entry is an object with a uint64 source
supplies(entry, flag) ==
    hasBit(extensions, flag) /\ entry.t = "object" /\ entry.v.source.t = "uint"

\* an entry that is either not there or an object with a uint64 source
plainEntry(entry) ==
    entry.t = "absent" \/ (entry.t = "object" /\ entry.v.source.t = "uint")

\* the source an enabled extension supplies, in the order KHR_texture_basisu
\* then MSFT_texture_dds; SizeMax when none does
extensionSource(tx) ==
    IF tx.extensions.t # "object" THEN SizeMax
    ELSE IF supplies(tx.extensions.v.KHR_texture_basisu, "KHR_texture_basisu")
    THEN tx.extensions.v.KHR_texture_basisu.v.source.n
    ELSE IF supplies(tx.extensions.v.MSFT_texture_dds, "MSFT_texture_dds")
    THEN tx.extensions.v.MSFT_texture_dds.v.source.n
    ELSE SizeMax

\* the document holds one texture object, its source a uint64 or not there,
\* its extensions not there or an object of plain entries
OneTexture ==
    /\ data.textures.t = "array"
    /\ Len(data.textures.v) = 1
    /\ data.textures.v[1].t = "object"
    /\ data.textures.v[1].v.source.t \in {"absent", "uint"}
    /\ \/ data.textures.v[1].v.extensions.t = "absent"
       \/ /\ data.textures.v[1].v.extensions.t = "object"
          /\ plainEntry(data.textures.v[1].v.extensions.v.KHR_texture_basisu)
          /\ plainEntry(data.textures.v[1].v.extensions.v.MSFT_texture_dds)

\* C6: for one texture, by base source (present or not), extension sources and
\* enabled flags: no source at all fails with InvalidGltf; only a base source
\* gives imageIndex = source; a source from an enabled extension (basisu before
\* dds) becomes imageIndex, and a present base source fallbackImageIndex.
C6_TextureSourceResolution ==
    (FirstCallWas("parseTextures") /\ OneTexture) =>
        LET tx   == data.textures.v[1].v
            ext  == extensionSource(tx)
            base == IF tx.source.t = "uint" THEN tx.source.n ELSE SizeMax
        IN  IF ext = SizeMax /\ base = SizeMax
            THEN ret = "InvalidGltf" /\ parsedAsset.textures = << >>
            ELSE /\ ret = "None"
                 /\ Len(parsedAsset.textures) = 1
                 /\ parsedAsset.textures[1].imageIndex = IF ext # SizeMax THEN ext ELSE base
                 /\ parsedAsset.textures[1].fallbackImageIndex =
                        IF ext # SizeMax THEN base ELSE SizeMax

\* C7: a texture with a base source and an extensions object from which no
\* enabled texture extension supplies a source (empty, unknown keys only, or
\* keys of extensions that are not enabled) parses with imageIndex = source.
C7_UnusedExtensionKeysIgnored ==
    (/\ FirstCallWas("parseTextures")
     /\ OneTexture
     /\ data.textures.v[1].v.source.t = "uint"
     /\ data.textures.v[1].v.extensions.t = "object"
     /\ extensionSource(data.textures.v[1].v) = SizeMax)
        => /\ ret = "None"
           /\ errorCode = "None"
           /\ Len(parsedAsset.textures) = 1
           /\ parsedAsset.textures[1].imageIndex = data.textures.v[1].v.source.n

-----------------------------------------------------------------------------
(* Properties of parseScenes and parseNodes *)

\* every scene is an object whose nodes are not there or an array of uint64,
\* and some scene has no nodes
ScenesWithoutNodes ==
    /\ data.scenes.t = "array"
    /\ \A i \in 1..Len(data.scenes.v) :
          /\ data.scenes.v[i].t = "object"
          /\ data.scenes.v[i].v.nodes.t \in {"absent", "array"}
          /\ \A j \in 1..Len(data.scenes.v[i].v.nodes.v) :
                data.scenes.v[i].v.nodes.v[j].t = "uint"
    /\ \E i \in 1..Len(data.scenes.v) : data.scenes.v[i].v.nodes.t = "absent"

\* the scenes that have nodes, in source order
scenesKept ==
    emitted([i \in 1..Len(data.scenes.v) |->
                IF data.scenes.v[i].v.nodes.t = "absent" THEN Skip
                ELSE Emit([nodeIndices |-> [j \in 1..Len(data.scenes.v[i].v.nodes.v) |->
                                               data.scenes.v[i].v.nodes.v[j].n],
                           name |-> optName(data.scenes.v[i].v.name)])],
            Len(data.scenes.v))

\* C8: parseScenes on scenes some of which have no nodes returns None, latches
\* no error and emits the other scenes in source order, and a getParsedAsset
\* that follows returns the asset.
C8_SceneWithoutNodesDropped ==
    [][ /\ (pc = "loaded" /\ calls = 0 /\ ScenesWithoutNodes /\ lastOp' = "parseScenes")
            => /\ ret' = "None"
               /\ errorCode' = "None"
               /\ parsedAsset'.scenes = scenesKept
        /\ (FirstCallWas("parseScenes") /\ ScenesWithoutNodes /\ AssetTaken)
            => /\ callerAsset'.has
               /\ callerAsset'.asset.scenes = scenesKept ]_vars

\* every node is an object that is well-formed but for its matrix, and some node
\* has no children
NodesWithoutChildren ==
    /\ data.nodes.t = "array"
    /\ \A i \in 1..Len(data.nodes.v) :
          /\ data.nodes.v[i].t = "object"
          /\ data.nodes.v[i].v.children.t \in {"absent", "array"}
          /\ \A j \in 1..Len(data.nodes.v[i].v.children.v) :
                data.nodes.v[i].v.children.v[j].t = "uint"
          /\ data.nodes.v[i].v.scale.t = "absent"
          /\ data.nodes.v[i].v.translation.t = "absent"
          /\ data.nodes.v[i].v.rotation.t = "absent"
    /\ \E i \in 1..Len(data.nodes.v) : data.nodes.v[i].v.children.t = "absent"

\* C9: parseNodes on nodes some of which have no children returns None and
\* latches no error; such a node gets an empty children sequence, and a node
\* whose matrix has a non-number element gets hasMatrix false and the default
\* scale, translation and rotation.
C9_NodeWithoutChildrenParses ==
    [][ (pc = "loaded" /\ calls = 0 /\ NodesWithoutChildren /\ lastOp' = "parseNodes")
            => /\ ret' = "None"
               /\ errorCode' = "None"
               /\ Len(parsedAsset'.nodes) = Len(data.nodes.v)
               /\ \A i \in 1..Len(data.nodes.v) :
                     /\ data.nodes.v[i].v.children.t = "absent"
                           => parsedAsset'.nodes[i].children = << >>
                     /\ (/\ data.nodes.v[i].v.matrix.t = "array"
                         /\ \E j \in 1..Len(data.nodes.v[i].v.matrix.v) :
                               data.nodes.v[i].v.matrix.v[j].t \notin {"uint", "double"})
                           => /\ ~parsedAsset'.nodes[i].hasMatrix
                              /\ parsedAsset'.nodes[i].scale = <<2, 2, 2>>
                              /\ parsedAsset'.nodes[i].translation = <<0, 0, 0>>
                              /\ parsedAsset'.nodes[i].rotation = <<0, 0, 0, 2>> ]_vars

-----------------------------------------------------------------------------
(* Properties of parseImages *)

\* the document holds one image object with a usable uri or none, a uint64
\* bufferView or none, and a string mimeType or none
OneImage ==
    /\ data.images.t = "array"
    /\ Len(data.images.v) = 1
    /\ data.images.v[1].t = "object"
    /\ \/ data.images.v[1].v.uri.t = "absent"
       \/ data.images.v[1].v.uri \in {Str(uriRelative), Str(uriDataPng)}
    /\ data.images.v[1].v.bufferView.t \in {"absent", "uint"}
    /\ data.images.v[1].v.mimeType.t \in {"absent", "string"}

\* C10: parseImages accepts an image exactly when one of uri and bufferView is
\* present and not the other, and mimeType is present with bufferView; an
\* accepted image has a location other than None, an accepted bufferView image
\* has its bufferViewIndex and location BufferViewWithMime; every other image
\* gives InvalidGltf.
C10_ImageAcceptedExactlyWhenValid ==
    (FirstCallWas("parseImages") /\ OneImage) =>
        LET im      == data.images.v[1].v
            hasUri  == im.uri.t = "string"
            hasView == im.bufferView.t = "uint"
            accept  == (hasUri # hasView) /\ (hasView => im.mimeType.t = "string")
        IN  IF accept
            THEN /\ ret = "None"
                 /\ Len(parsedAsset.images) = 1
                 /\ parsedAsset.images[1].location # "None"
                 /\ hasView =>
                       /\ parsedAsset.images[1].data.bufferViewIndex = im.bufferView.n
                       /\ parsedAsset.images[1].location = "BufferViewWithMime"
            ELSE ret = "InvalidGltf" /\ parsedAsset.images = << >>

-----------------------------------------------------------------------------
(* Properties of the GLB loader and of parseBuffers *)

\* the handle was loaded from a GLB file in which a second chunk follows the
\* JSON chunk: the header's length reaches beyond a second chunk header
LoadedFromGlbWithBin ==
    /\ file.isRegular
    /\ Len(file.chunks) >= 1
    /\ file.length > sizeofHeader + sizeofChunk + file.chunks[1].chunkLength + sizeofChunk

\* the document holds buffer objects with a byteLength, each with a usable uri
\* or none
BuffersWellFormed ==
    /\ data.buffers.t = "array"
    /\ \A i \in 1..Len(data.buffers.v) :
          /\ data.buffers.v[i].t = "object"
          /\ data.buffers.v[i].v.byteLength.t = "uint"
          /\ \/ data.buffers.v[i].v.uri.t = "absent"
             \/ data.buffers.v[i].v.uri \in {Str(uriRelative), Str(uriDataOctet)}

\* C11: parseBuffers accepts a buffer without uri only at index 0 of a handle
\* loaded from a GLB with a BIN chunk; any other buffer without uri fails the
\* call with InvalidGltf at that buffer; a buffer with a uri takes its data
\* from the uri, also at index 0 of a GLB with a BIN chunk.
C11_UrilessBufferOnlyFromGlbBin ==
    (FirstCallWas("parseBuffers") /\ BuffersWellFormed) =>
        LET bs  == data.buffers.v
            bad == {i \in 1..Len(bs) :
                       /\ bs[i].v.uri.t = "absent"
                       /\ ~(i = 1 /\ LoadedFromGlbWithBin)}
        IN  /\ IF bad = {}
               THEN ret = "None" /\ Len(parsedAsset.buffers) = Len(bs)
               ELSE /\ ret = "InvalidGltf"
                    /\ errorCode = "InvalidGltf"
                    /\ \E k \in bad : /\ \A j \in bad : k <= j
                                      /\ Len(parsedAsset.buffers) = k - 1
            /\ \A i \in 1..Len(parsedAsset.buffers) :
                  LET b == parsedAsset.buffers[i] IN
                  /\ bs[i].v.uri = Str(uriRelative) =>
                        /\ b.location = "FilePathWithByteRange"
                        /\ b.data.bytes = << >>
                        /\ b.data.path # file.path
                        /\ b.data.path[Len(b.data.path)] = uriRelative
                  /\ bs[i].v.uri = Str(uriDataOctet) =>
                        /\ b.location = "VectorWithMime"
                        /\ b.data.bytes = << 1, 2, 3 >>
                        /\ b.data.path = << >>

\* of two buffers without uri in a GLB with a BIN chunk, the first was accepted
\* and the second rejected
C11_Witness ==
    /\ FirstCallWas("parseBuffers")
    /\ LoadedFromGlbWithBin
    /\ data.buffers = Arr(<< BufferNoUri, BufferNoUri >>)
    /\ ret = "InvalidGltf"
    /\ Len(parsedAsset.buffers) = 1
    /\ parsedAsset.buffers[1].location # "None"

firstChunkLength == IF Len(file.chunks) >= 1 THEN file.chunks[1].chunkLength ELSE 0
firstChunkType   == IF Len(file.chunks) >= 1 THEN file.chunks[1].chunkType ELSE 0
secondChunkType  == IF Len(file.chunks) >= 2 THEN file.chunks[2].chunkType ELSE 0
secondHeaderExists == file.length > 20 + firstChunkLength + 8
headerFault ==
    \/ file.magic # 1179937895
    \/ file.version # 2
    \/ firstChunkType # 1313821514

\* loadBinaryGLTF has returned for a regular file
BinaryLoadReturned == lastOp = "loadBinaryGLTF" /\ file.isRegular

-----------------------------------------------------------------------------
(* Properties of a Parser used for several documents *)

\* this step is a load made for another document
OtherLoadStep == lastOp' \in {"loadGLTF(other)", "loadBinaryGLTF(other)"}

\* C14: a load of another document made while a handle is in use leaves what
\* the handle reads as it was: the handle's DOM is its own.
C14_OtherLoadLeavesHandleAlone ==
    [][ (pc = "loaded" /\ OtherLoadStep) => data' = data ]_vars

\* the header of f fails one of the tests made before the JSON payload is read
headerFaultOf(f) ==
    \/ f.magic # 1179937895
    \/ f.version # 2
    \/ Len(f.chunks) = 0
    \/ f.chunks[1].chunkType # 1313821514

\* what C15 says of one load with the options opts that left the error: isGlb
\* tells loadBinaryGLTF (of the file f) from loadGLTF.  The load reached its DOM
\* parse when it failed with neither InvalidPath nor InvalidGLB, or failed with
\* InvalidGLB on a file whose header is sound and states the file's length; it
\* failed earlier with InvalidPath, or with InvalidGLB on a header fault.
selectionAfterLoad(isGlb, opts, f, error) ==
    LET reached ==
            IF isGlb
            THEN \/ error \notin {"InvalidPath", "InvalidGLB"}
                 \/ /\ error = "InvalidGLB"
                    /\ ~headerFaultOf(f)
                    /\ f.length = fileLength(f)
            ELSE error # "InvalidPath"
        early ==
            \/ error = "InvalidPath"
            \/ isGlb /\ error = "InvalidGLB" /\ headerFaultOf(f)
    IN  /\ (reached /\ hasBit(opts, "DontUseSIMD")) => activeImplementation' = "fallback"
        /\ early => activeImplementation' = activeImplementation

\* C15: the active implementation, once the fallback, stays the fallback
\* through every later load by any Parser with any options; a load with
\* DontUseSIMD that reaches its DOM parse makes it the fallback; a load that
\* fails before with InvalidPath or InvalidGLB leaves it as it was.
C15_SelectionOneWay ==
    [][ /\ activeImplementation = "fallback" => activeImplementation' = "fallback"
        /\ (pc = "start" /\ lastOp' = "loadGLTF")
              => selectionAfterLoad(FALSE, input.options, NoFile, parserError')
        /\ (pc = "start" /\ lastOp' = "loadBinaryGLTF")
              => selectionAfterLoad(TRUE, input.options, file, parserError')
        /\ OtherLoadStep
              => selectionAfterLoad(otherLoad'.op = "loadBinaryGLTF", otherLoad'.options,
                                    otherLoad'.file, otherLoad'.error) ]_vars

\* after a load of another document with DontUseSIMD, this document was loaded
\* without DontUseSIMD and the fallback is still active
C15_Witness ==
    /\ lastOp = "loadGLTF"
    /\ pc = "loaded"
    /\ ~hasBit(input.options, "DontUseSIMD")
    /\ otherLoad.op # "none"
    /\ hasBit(otherLoad.options, "DontUseSIMD")
    /\ activeImplementation = "fallback"

-----------------------------------------------------------------------------
(* Properties of the top-level arrays *)

\* the top-level field a parse<Entity> reads
fieldOfOp(op) ==
    CASE op = "parseAccessors"   -> "accessors"
      [] op = "parseBuffers"     -> "buffers"
      [] op = "parseBufferViews" -> "bufferViews"
      [] op = "parseImages"      -> "images"
      [] op = "parseMaterials"   -> "materials"
      [] op = "parseMeshes"      -> "meshes"
      [] op = "parseNodes"       -> "nodes"
      [] op = "parseScenes"      -> "scenes"
      [] op = "parseTextures"    -> "textures"

\* C16: a parse<Entity> call on a handle without error whose asset has not been
\* taken: with the top-level array absent or empty it returns None, appends
\* nothing and latches no error; with the field present and no array it returns
\* InvalidGltf and latches it.
C16_AbsentEmptyOrNoArray ==
    [][ (/\ calls' = calls + 1
         /\ lastOp' \in ParseOps
         /\ errorCode = "None"
         /\ ~assetMoved)
           => LET entity == fieldOfOp(lastOp')
                  field  == data[entity]
              IN  /\ (field.t = "absent" \/ (field.t = "array" /\ field.v = << >>))
                        => /\ pc' = "loaded"
                           /\ ret' = "None"
                           /\ errorCode' = "None"
                           /\ parsedAsset'[entity] = parsedAsset[entity]
                  /\ field.t = "other"
                        => /\ pc' = "loaded"
                           /\ ret' = "InvalidGltf"
                           /\ errorCode' = "InvalidGltf"
                           /\ parsedAsset' = parsedAsset ]_vars

\* parseScenes, called after a call that appended an accessor, met a scenes
\* field that is no array, in a document whose textures array is empty:
\* InvalidGltf is returned and latched and no scene is appended
C16_Witness ==
    /\ lastOp = "parseScenes"
    /\ data.scenes.t = "other"
    /\ data.textures = Arr(<< >>)
    /\ ret = "InvalidGltf"
    /\ errorCode = "InvalidGltf"
    /\ Len(parsedAsset.accessors) = 1
    /\ parsedAsset.scenes = << >>
    /\ calls >= 2

-----------------------------------------------------------------------------
(* Properties of positions and of parseMeshes *)

\* a parse<Entity> call that returns None on a handle without error that still
\* owns its asset and has nothing of that entity yet
FirstSuccessfulParse(op) ==
    /\ calls' = calls + 1
    /\ lastOp' = op
    /\ errorCode = "None"
    /\ ~assetMoved
    /\ parsedAsset[fieldOfOp(op)] = << >>
    /\ ret' = "None"

\* C17: after a successful parse<Entity> the output array is as long as the
\* source array, and the mesh, node and scene at output position i are the ones
\* built from the source element at position i, so that a stored index
\* designates the same entity in the output as in the source.
C17_OutputPositionIsSourcePosition ==
    [][ \A op \in ParseOps :
          FirstSuccessfulParse(op)
            => LET entity == fieldOfOp(op)
                   source == data[entity].v
                   output == parsedAsset'[entity]
               IN  /\ Len(output) = Len(source)
                   /\ \A i \in 1..Len(source) :
                        /\ entity = "meshes" => output[i] = parseMesh(source[i]).item
                        /\ entity = "nodes"  => output[i] = parseNode(source[i]).item
                        /\ entity = "scenes" => output[i] = parseScene(source[i]).item ]_vars

\* a mesh object that has a primitives array
hasPrimitives(mesh) == IsObject(mesh) /\ IsArray(mesh.v.primitives)

\* a primitive that is no object, has no attributes object, or has an attribute
\* whose value is no integer
badPrimitive(p) ==
    \/ ~IsObject(p)
    \/ ~IsObject(p.v.attributes)
    \/ \E k \in 1..Len(p.v.attributes.v) : ~IsUint(p.v.attributes.v[k].value)

\* a mesh object whose primitives is present and malformed
malformedMesh(mesh) ==
    /\ IsObject(mesh)
    /\ \/ mesh.v.primitives.t = "other"
       \/ /\ IsArray(mesh.v.primitives)
          /\ \E j \in 1..Len(mesh.v.primitives.v) : badPrimitive(mesh.v.primitives.v[j])

\* what a source mesh and its primitives look like in the asset
expectedPrimitive(p) ==
    [attributes      |-> [k \in 1..Len(p.v.attributes.v) |->
                            [key   |-> p.v.attributes.v[k].key,
                             index |-> p.v.attributes.v[k].value.n]],
     type            |-> IF IsUint(p.v.mode) THEN p.v.mode.n ELSE 4,
     indicesAccessor |-> IF IsUint(p.v.indices) THEN p.v.indices.n ELSE SizeMax,
     materialIndex   |-> IF IsUint(p.v.material) THEN p.v.material.n ELSE SizeMax]

expectedMesh(mesh) ==
    [primitives |-> [j \in 1..Len(mesh.v.primitives.v) |->
                       expectedPrimitive(mesh.v.primitives.v[j])],
     name       |-> IF IsString(mesh.v.name) THEN mesh.v.name.s ELSE << >>]

RECURSIVE expectedMeshes(_)
expectedMeshes(source) ==
    IF source = << >> THEN << >>
    ELSE IF hasPrimitives(Head(source))
    THEN << expectedMesh(Head(source)) >> \o expectedMeshes(Tail(source))
    ELSE expectedMeshes(Tail(source))

-----------------------------------------------------------------------------
(* Properties of decodeUri *)

\* the first parseBuffers of a handle loaded from JSON whose one buffer has a
\* string uri
ResolvesBufferUri ==
    /\ calls' = calls + 1
    /\ lastOp' = "parseBuffers"
    /\ errorCode = "None"
    /\ ~assetMoved
    /\ glb.isNull
    /\ parsedAsset.buffers = << >>
    /\ IsArray(data.buffers)
    /\ Len(data.buffers.v) = 1
    /\ IsObject(data.buffers.v[1])
    /\ IsUint(data.buffers.v[1].v.byteLength)
    /\ IsString(data.buffers.v[1].v.uri)

beginsWithDataColon(uri) ==
    Len(uri) >= 5 /\ SubSeq(uri, 1, 5) = <<"d","a","t","a",":">>

\* no ';', no ',' after the first ';', or another text than base64 between them
badDataUri(uri) ==
    LET semis  == {i \in 1..Len(uri) : uri[i] = ";"}
        semi   == CHOOSE i \in semis : \A j \in semis : i <= j
        commas == {i \in 1..Len(uri) : uri[i] = "," /\ i > semi}
        comma  == CHOOSE i \in commas : \A j \in commas : i <= j
    IN  \/ semis = {}
        \/ commas = {}
        \/ SubSeq(uri, semi + 1, comma - 1) # <<"b","a","s","e","6","4">>

\* the characters of a data URI from index 5 up to the first ';'
mimeText(uri) ==
    LET semi == CHOOSE i \in 1..Len(uri) :
                   uri[i] = ";" /\ \A j \in 1..(i - 1) : uri[j] # ";"
    IN  SubSeq(uri, 6, semi - 1)

\* C19: a uri that does not begin with "data:" gives no error and the path
\* base directory / uri with location FilePathWithByteRange; a uri that begins
\* with "data:" gives InvalidGltf exactly when it has no ';', no ',' after the
\* first ';' or another text than base64 between them, and otherwise location
\* VectorWithMime and the MIME type named from index 5 up to the ';'.
C19_DataColonOrRelativePath ==
    [][ ResolvesBufferUri
          => LET uri == data.buffers.v[1].v.uri.s IN
             IF ~beginsWithDataColon(uri)
             THEN /\ ret' = "None"
                  /\ Len(parsedAsset'.buffers) = 1
                  /\ parsedAsset'.buffers[1].location = "FilePathWithByteRange"
                  /\ parsedAsset'.buffers[1].data.path = Append(directory, uri)
             ELSE IF badDataUri(uri)
             THEN /\ ret' = "InvalidGltf"
                  /\ parsedAsset'.buffers = << >>
             ELSE /\ ret' = "None"
                  /\ Len(parsedAsset'.buffers) = 1
                  /\ parsedAsset'.buffers[1].location = "VectorWithMime"
                  /\ parsedAsset'.buffers[1].data.mimeType
                       = getMimeTypeFromString(mimeText(uri)) ]_vars

-----------------------------------------------------------------------------
(* Properties of the colour arrays of a material *)

\* the first parseMaterials of a handle whose one material is an object with a
\* pbrMetallicRoughness object
ParsesOneMaterial ==
    /\ calls' = calls + 1
    /\ lastOp' = "parseMaterials"
    /\ errorCode = "None"
    /\ ~assetMoved
    /\ parsedAsset.materials = << >>
    /\ IsArray(data.materials)
    /\ Len(data.materials.v) = 1
    /\ IsObject(data.materials.v[1])
    /\ IsObject(data.materials.v[1].v.pbrMetallicRoughness)

\* C20: parseMaterials returns InvalidGltf for an emissiveFactor array whose
\* length is not 3 and for a baseColorFactor array whose length is not 4,
\* shorter or longer; an absent emissiveFactor becomes [0, 0, 0] and an absent
\* baseColorFactor [1, 1, 1, 1] (floats are stored in halves).
C20_ColourLengthsEnforced ==
    [][ ParsesOneMaterial
          => LET material        == data.materials.v[1].v
                 emissiveFactor  == material.emissiveFactor
                 baseColorFactor == material.pbrMetallicRoughness.v.baseColorFactor
             IN  /\ (IsArray(emissiveFactor) /\ Len(emissiveFactor.v) # 3)
                       => ret' = "InvalidGltf" /\ parsedAsset'.materials = << >>
                 /\ (IsArray(baseColorFactor) /\ Len(baseColorFactor.v) # 4)
                       => ret' = "InvalidGltf" /\ parsedAsset'.materials = << >>
                 /\ ret' = "None"
                       => /\ Len(parsedAsset'.materials) = 1
                          /\ emissiveFactor.t = "absent"
                               => parsedAsset'.materials[1].emissiveFactor = <<0, 0, 0>>
                          /\ baseColorFactor.t = "absent"
                               => parsedAsset'.materials[1].pbrData.baseColorFactor
                                    = <<2, 2, 2, 2>> ]_vars

-----------------------------------------------------------------------------
(* Properties of repeated calls *)

\* C21: a parse<Entity> call that repeats the call before it, on a handle
\* without error that still owns its asset, leaves the asset as the first call
\* left it: no entry is appended a second time.
C21_RepeatedParseChangesNothing ==
    [][ (/\ calls' = calls + 1
         /\ lastOp' \in ParseOps
         /\ lastOp' = lastOp
         /\ errorCode = "None"
         /\ ~assetMoved)
           => parsedAsset' = parsedAsset ]_vars

-----------------------------------------------------------------------------
(* Properties of the stores of parseNodes *)

\* C22: a parseNodes call on a handle that still owns its asset stores only
\* within the node's arrays (index below 16 for matrix, 3 for scale and
\* translation, 4 for rotation), also for source arrays longer than the field,
\* and so returns to its caller.
C22_NodeStoresWithinArrays ==
    [][ (/\ calls' = calls + 1
         /\ lastOp' = "parseNodes"
         /\ ~assetMoved
         /\ IsArray(data.nodes))
           => /\ ~storesPastEnd(data.nodes.v)
              /\ pc' = "loaded" ]_vars

-----------------------------------------------------------------------------
(* Properties of the base directory of a handle loaded from a GLB file *)

\* the buffers of the asset that were resolved from a relative uri
relativeBuffers ==
    {i \in 1..Len(parsedAsset.buffers) :
        /\ parsedAsset.buffers[i].location = "FilePathWithByteRange"
        /\ parsedAsset.buffers[i].data.mimeType # "GltfBuffer"}

\* C23: a handle returned by loadBinaryGLTF (the only load that can succeed
\* when the given directory is none) has the parent directory of the GLB file as
\* its base directory, with or without a BIN chunk, and every relative buffer
\* uri u is resolved to parent_path(file) / u.
C23_GlbBaseDirectoryIsParent ==
    (pc = "loaded" /\ ~input.isDirectory)
        => /\ directory = parentPath(file.path)
           /\ \A i \in relativeBuffers :
                 parsedAsset.buffers[i].data.path
                    = Append(parentPath(file.path), parsedAsset.buffers[i].data.path[Len(parsedAsset.buffers[i].data.path)])

====
